---- MODULE Spec2Model ----
(***************************************************************************)
(* Plant-Label-Maker: the label server (src/server.js).                    *)
(*                                                                         *)
(* The server is a set of pure functions (identifier builder, payload      *)
(* normaliser, label enumerators, sampling engine, layout arithmetic)      *)
(* called from HTTP handlers.  The state of the model is the call being    *)
(* served, what it returned, the clock Date.now() reads, and the previous  *)
(* sampling call (a history variable: determinism compares two calls).     *)
(*                                                                         *)
(* Encodings.  A JavaScript string that the code inspects character by     *)
(* character (site name, crop type, structure code, seed) is a sequence of *)
(* one-character strings; a string the code only builds or compares is a   *)
(* TLA+ string.  A JSON number field is an integer; every value that       *)
(* parsePositiveInt rejects (absent, null, "", "abc", 1.5, 0, -1) is the   *)
(* integer 0, and JavaScript's null is Null.  A 32-bit word is a pair      *)
(* <<high 16 bits, low 16 bits>>.                                          *)
(***************************************************************************)
EXTENDS Integers, Sequences, FiniteSets, TLC

VARIABLES
  call,     \* the function call or HTTP request served last
  result,   \* what it returned (or threw)
  now,      \* Date.now()
  prior,    \* the buildSamplingPlan call served before the last one, and its result
  plans,    \* the sampling plans saved (sampling-plans.json)
  app       \* the page in the browser (public/app.js)

vars == <<call, result, now, prior, plans, app>>

-----------------------------------------------------------------------------
(* Bounds of the model *)

MaxPlots == 2      \* plots of a payload
MaxRows == 2       \* rows of a plot
MaxCount == 2      \* plants of a row (or of a plot, for S1) in an explicit tree
MaxClock == 2      \* ticks of the clock
MaxTracked == 2    \* entries of a trackedPlants list sent to an enumeration
MaxPlans == 1      \* sampling plans saved
MaxSegments == 2   \* segments of a range string handed to parseRangeList
MaxRequests == 2   \* /api/sample requests a page sends
MaxEvents == 6     \* handlers a page runs
MaxPopulation == 5 \* population handed to sampleUnique

-----------------------------------------------------------------------------
(* Characters and strings *)

Null == 0

NoCall == [fn |-> "none"]

Lower == <<"a","b","c","d","e","f","g","h","i","j","k","l","m",
           "n","o","p","q","r","s","t","u","v","w","x","y","z">>

Upper == <<"A","B","C","D","E","F","G","H","I","J","K","L","M",
           "N","O","P","Q","R","S","T","U","V","W","X","Y","Z">>

Digits == <<"0","1","2","3","4","5","6","7","8","9">>

Whitespace == {" ", "\t", "\n"}

Range(s) == {s[i] : i \in DOMAIN s}

IndexOf(s, c) == CHOOSE i \in DOMAIN s : s[i] = c

LowerChars == Range(Lower)

\* [A-Z0-9]
CodeChars == Range(Upper) \cup Range(Digits)

\* String.prototype.toUpperCase, one character
toUpperChar(c) == IF c \in LowerChars THEN Upper[IndexOf(Lower, c)] ELSE c

toUpperCase(cs) == [i \in DOMAIN cs |-> toUpperChar(cs[i])]

RECURSIVE TrimStart(_)
TrimStart(cs) ==
  IF cs # <<>> /\ Head(cs) \in Whitespace THEN TrimStart(Tail(cs)) ELSE cs

RECURSIVE TrimEnd(_)
TrimEnd(cs) ==
  IF cs # <<>> /\ cs[Len(cs)] \in Whitespace
  THEN TrimEnd(SubSeq(cs, 1, Len(cs) - 1)) ELSE cs

\* String.prototype.trim
trim(cs) == TrimEnd(TrimStart(cs))

\* the characters of cs as one string
RECURSIVE StrOf(_)
StrOf(cs) == IF cs = <<>> THEN "" ELSE Head(cs) \o StrOf(Tail(cs))

\* Number.prototype.toString: the characters of an integer n >= 0
RECURSIVE toString(_)
toString(n) ==
  IF n < 10 THEN <<Digits[n + 1]>> ELSE Append(toString(n \div 10), Digits[(n % 10) + 1])

\* String(num): null prints as "null"
String(num) == IF num = Null THEN "null" ELSE StrOf(toString(num))

RECURSIVE Zeros(_)
Zeros(k) == IF k <= 0 THEN "" ELSE "0" \o Zeros(k - 1)

\* String(num).padStart(len, '0')
pad(num, len) == Zeros(len - Len(String(num))) \o String(num)


\* .replace(/[^A-Z0-9]+/g, '-').replace(/-+/g, '-'): every maximal run of
\* characters outside [A-Z0-9] becomes one hyphen
RECURSIVE CollapseRuns(_, _)
CollapseRuns(cs, inRun) ==
  IF cs = <<>> THEN <<>>
  ELSE IF Head(cs) \in CodeChars THEN <<Head(cs)>> \o CollapseRuns(Tail(cs), FALSE)
  ELSE IF inRun THEN CollapseRuns(Tail(cs), TRUE)
  ELSE <<"-">> \o CollapseRuns(Tail(cs), TRUE)

\* .replace(/^-|-$/g, ''): one leading and one trailing hyphen
StripHyphens(cs) ==
  LET a == IF cs # <<>> /\ Head(cs) = "-" THEN Tail(cs) ELSE cs
  IN IF a # <<>> /\ a[Len(a)] = "-" THEN SubSeq(a, 1, Len(a) - 1) ELSE a

normalizeCodeMutant(text) ==
  StrOf(SelectSeq(toUpperCase(trim(text)), LAMBDA c : c \in CodeChars))

normalizeCode(text) ==
  StrOf(StripHyphens(CollapseRuns(toUpperCase(trim(text)), FALSE)))

\* Number.isInteger(Number(value)) && Number(value) > 0, else null
parsePositiveInt(value) == IF value \in Int /\ value > 0 THEN value ELSE Null

-----------------------------------------------------------------------------
(* Structures and modes *)

STRUCTURES == [
  S1 |-> [code |-> "S1", hasRows |-> FALSE, hasPlants |-> TRUE],
  S2 |-> [code |-> "S2", hasRows |-> TRUE, hasPlants |-> FALSE],
  S3 |-> [code |-> "S3", hasRows |-> TRUE, hasPlants |-> TRUE],
  S4 |-> [code |-> "S4", hasRows |-> FALSE, hasPlants |-> FALSE]]

MODES == [STANDARD |-> "Standard", RESEARCH |-> "Research", FULL |-> "Full"]

IsKnownStructure(code) == code \in DOMAIN STRUCTURES

\* STRUCTURES[code] || STRUCTURES.S3
getStructure(code) == IF IsKnownStructure(code) THEN STRUCTURES[code] ELSE STRUCTURES.S3

hasPlantTracking(structureCode, mode) ==
  IF ~getStructure(structureCode).hasPlants THEN FALSE
  ELSE mode = MODES.RESEARCH \/ mode = MODES.FULL

-----------------------------------------------------------------------------
(* Identifier builder *)

buildPlantIdShort(plotNo, rowNo, plantNo) ==
  "P" \o pad(plotNo, 2) \o "-R" \o pad(rowNo, 2) \o "-T" \o pad(plantNo, 3)

buildPlotIdShort(plotNo) == "P" \o pad(plotNo, 2)

buildRowIdShort(plotNo, rowNo) == "P" \o pad(plotNo, 2) \o "-R" \o pad(rowNo, 2)

buildPlantIdShortFlexible(structureCode, plotNo, rowNo, plantNo) ==
  IF structureCode = "S1"
  THEN "P" \o pad(plotNo, 2) \o "-T" \o pad(plantNo, 3)
  ELSE buildPlantIdShort(plotNo, rowNo, plantNo)

buildPlantIdFullFlexible(siteName, cropType, structureCode, plotNo, rowNo, plantNo) ==
  normalizeCode(siteName) \o "-" \o normalizeCode(cropType) \o "-"
    \o buildPlantIdShortFlexible(structureCode, plotNo, rowNo, plantNo)

buildPlotIdFull(siteName, cropType, plotNo) ==
  normalizeCode(siteName) \o "-" \o normalizeCode(cropType) \o "-"
    \o buildPlotIdShort(plotNo)

buildRowIdFull(siteName, cropType, plotNo, rowNo) ==
  normalizeCode(siteName) \o "-" \o normalizeCode(cropType) \o "-"
    \o buildRowIdShort(plotNo, rowNo)

-----------------------------------------------------------------------------
(* Structure/payload normaliser *)

\* body.X || fallback, for a string field
OrElse(cs, fallback) == IF cs = <<>> THEN fallback ELSE cs


normalizeRow(row, rowIndex) ==
  [rowNo |-> IF parsePositiveInt(row.row_no) # Null
             THEN parsePositiveInt(row.row_no) ELSE rowIndex,
   plantCount |-> parsePositiveInt(row.plant_count)]

\* one element of body.plots.map(...); plotIndex and rowIndex are 1-based here,
\* so the code's "plotIndex + 1" is plotIndex
normalizePlot(plot, plotIndex, structure) ==
  LET plotNo == IF parsePositiveInt(plot.plot_no) # Null
                THEN parsePositiveInt(plot.plot_no) ELSE plotIndex
  IN IF ~structure.hasRows /\ structure.hasPlants
     THEN [plotNo |-> plotNo, plantCount |-> parsePositiveInt(plot.plant_count),
           rows |-> <<>>]
     ELSE IF ~structure.hasRows /\ ~structure.hasPlants
     THEN [plotNo |-> plotNo, plantCount |-> Null, rows |-> <<>>]
     ELSE [plotNo |-> plotNo, plantCount |-> Null,
           rows |-> [r \in DOMAIN plot.rows |-> normalizeRow(plot.rows[r], r)]]

\* the compact form: plotsCount, rowsPerPlot, plantsPerRow, plantsPerPlot
expandCompact(body, structure) ==
  LET plotCount == parsePositiveInt(body.plotsCount)
      rowsPerPlot == parsePositiveInt(body.rowsPerPlot)
      plantsPerRow == parsePositiveInt(body.plantsPerRow)
      plantsPerPlot == parsePositiveInt(body.plantsPerPlot)
  IN IF plotCount = Null THEN <<>>
     ELSE IF ~structure.hasRows /\ structure.hasPlants /\ plantsPerPlot # Null
     THEN [p \in 1..plotCount |->
             [plotNo |-> p, plantCount |-> plantsPerPlot, rows |-> <<>>]]
     ELSE IF ~structure.hasRows /\ ~structure.hasPlants
     THEN [p \in 1..plotCount |-> [plotNo |-> p, plantCount |-> Null, rows |-> <<>>]]
     ELSE IF rowsPerPlot # Null /\ plantsPerRow # Null
     THEN [p \in 1..plotCount |->
             [plotNo |-> p, plantCount |-> Null,
              rows |-> [r \in 1..rowsPerPlot |->
                          [rowNo |-> r, plantCount |-> plantsPerRow]]]]
     ELSE <<>>

parsePlots(body, structureCode) ==
  LET structure == getStructure(structureCode)
  IN IF body.plots # <<>>
     THEN [i \in DOMAIN body.plots |-> normalizePlot(body.plots[i], i, structure)]
     ELSE expandCompact(body, structure)

RECURSIVE SumSeq(_)
SumSeq(s) == IF s = <<>> THEN 0 ELSE Head(s) + SumSeq(Tail(s))

RECURSIVE Flatten(_)
Flatten(ss) == IF ss = <<>> THEN <<>> ELSE Head(ss) \o Flatten(Tail(ss))

RowError(plot, row) ==
  IF row.plantCount = Null \/ row.plantCount < 1
  THEN <<"Plot " \o String(plot.plotNo) \o " Row " \o String(row.rowNo)
           \o " must have at least 1 plant.">>
  ELSE <<>>

PlotErrorsMutant(plot, structure) ==
  IF structure.hasRows
  THEN Flatten([r \in DOMAIN plot.rows |-> RowError(plot, plot.rows[r])])
  ELSE IF structure.hasPlants /\ (plot.plantCount = Null \/ plot.plantCount < 1)
  THEN <<"Plot " \o String(plot.plotNo) \o " must have at least 1 plant.">>
  ELSE <<>>

\* the errors one pass of plots.forEach pushes for this plot
PlotErrors(plot, structure) ==
  IF structure.hasRows
  THEN IF plot.rows = <<>>
       THEN <<"Plot " \o String(plot.plotNo) \o " must have at least 1 row.">>
       ELSE Flatten([r \in DOMAIN plot.rows |-> RowError(plot, plot.rows[r])])
  ELSE IF structure.hasPlants /\ (plot.plantCount = Null \/ plot.plantCount < 1)
  THEN <<"Plot " \o String(plot.plotNo) \o " must have at least 1 plant.">>
  ELSE <<>>

\* what the pass adds to totalRows
PlotRows(plot, structure) == IF structure.hasRows THEN Len(plot.rows) ELSE 0

\* what the pass adds to totalPlants
PlotPlants(plot, structure) ==
  IF structure.hasRows
  THEN SumSeq([r \in DOMAIN plot.rows |->
                 IF plot.rows[r].plantCount = Null THEN 0 ELSE plot.rows[r].plantCount])
  ELSE IF structure.hasPlants /\ plot.plantCount # Null THEN plot.plantCount
  ELSE 0

WarnLimit == 10000

ErrorLimit == 100000

StructureErrorMutant(structureCode) == <<>>

StructureError(structureCode) ==
  IF ~IsKnownStructure(structureCode) THEN <<"Tracking structure is invalid.">> ELSE <<>>

LimitError(totalLabels) ==
  IF totalLabels > ErrorLimit
  THEN <<"Total labels exceed the safe limit of 100,000.">> ELSE <<>>

LimitWarningMutant(totalLabels) ==
  IF totalLabels >= WarnLimit
  THEN <<"Total labels exceed 10,000. Consider exporting plot-wise.">> ELSE <<>>

LimitWarning(totalLabels) ==
  IF totalLabels > WarnLimit
  THEN <<"Total labels exceed 10,000. Consider exporting plot-wise.">> ELSE <<>>

ModeErrors(mode, structure) ==
  (IF mode \notin {MODES.STANDARD, MODES.RESEARCH, MODES.FULL}
   THEN <<"Tracking mode is invalid.">> ELSE <<>>)
  \o (IF (mode = MODES.RESEARCH \/ mode = MODES.FULL) /\ ~structure.hasPlants
      THEN <<"Selected tracking mode requires plant tracking.">> ELSE <<>>)

validatePayload(body) ==
  LET siteName == trim(body.siteName)
      cropType == trim(body.cropType)
      structureCode == StrOf(toUpperCase(OrElse(body.structureCode, <<"S", "3">>)))
      mode == IF body.mode = "" THEN MODES.STANDARD ELSE body.mode
      structure == getStructure(structureCode)
      plots == parsePlots(body, structureCode)
      totalRows == SumSeq([p \in DOMAIN plots |-> PlotRows(plots[p], structure)])
      totalPlants == SumSeq([p \in DOMAIN plots |-> PlotPlants(plots[p], structure)])
      totalLabels == totalPlants
      errors ==
        (IF siteName = <<>> THEN <<"Site name is required.">> ELSE <<>>)
        \o (IF cropType = <<>> THEN <<"Crop type is required.">> ELSE <<>>)
        \o (IF plots = <<>> THEN <<"At least one plot is required.">> ELSE <<>>)
        \o StructureError(structureCode)
        \o ModeErrors(mode, structure)
        \o Flatten([p \in DOMAIN plots |-> PlotErrors(plots[p], structure)])
        \o LimitError(totalLabels)
  IN [ok |-> errors = <<>>,
      errors |-> errors,
      warnings |-> LimitWarning(totalLabels),
      values |-> [siteName |-> siteName,
                  cropType |-> cropType,
                  structureCode |-> structureCode,
                  mode |-> mode,
                  plots |-> plots,
                  totalPlots |-> Len(plots),
                  totalRows |-> totalRows,
                  totalPlants |-> totalPlants,
                  totalLabels |-> totalLabels,
                  labels |-> [plot |-> Len(plots),
                              row |-> IF structure.hasRows THEN totalRows ELSE 0,
                              plant |-> IF hasPlantTracking(structureCode, mode)
                                        THEN totalPlants ELSE 0]]]

-----------------------------------------------------------------------------
(* Label enumerator: each generator is the sequence of the records it yields *)

\* exportPlot && exportPlot !== plotNo
Skipped(exportPlot, plotNo) == exportPlot # Null /\ exportPlot # plotNo

\* the comparator of [...trackedPlants].sort: plot, then row, then plant
TrackedKey(a) ==
  <<parsePositiveInt(a.plot_no), parsePositiveInt(a.row_no), parsePositiveInt(a.plant_no)>>

KeyLess(x, y) ==
  \/ x[1] < y[1]
  \/ x[1] = y[1] /\ x[2] < y[2]
  \/ x[1] = y[1] /\ x[2] = y[2] /\ x[3] < y[3]

\* Array.prototype.sort is stable: x goes behind every element not above it
RECURSIVE InsertSorted(_, _)
InsertSorted(sorted, x) ==
  IF sorted = <<>> THEN <<x>>
  ELSE IF KeyLess(TrackedKey(x), TrackedKey(Head(sorted)))
  THEN <<x>> \o sorted
  ELSE <<Head(sorted)>> \o InsertSorted(Tail(sorted), x)

RECURSIVE SortTracked(_)
SortTrackedMutant(tracked) == tracked

SortTracked(tracked) ==
  IF tracked = <<>> THEN <<>>
  ELSE InsertSorted(SortTracked(SubSeq(tracked, 1, Len(tracked) - 1)),
                    tracked[Len(tracked)])

PlantRecord(v, plotNo, rowNo, plantNo) ==
  [siteName |-> v.siteName,
   cropType |-> v.cropType,
   plotNo |-> plotNo,
   rowNo |-> rowNo,
   plantNo |-> plantNo,
   plantIdShort |-> buildPlantIdShortFlexible(v.structureCode, plotNo, rowNo, plantNo),
   plantIdFull |-> buildPlantIdFullFlexible(v.siteName, v.cropType, v.structureCode,
                                            plotNo, rowNo, plantNo)]

\* one pass of "for (const tracked of sortedTracked)"
TrackedRecord(v, exportPlot, tracked) ==
  LET plotNo == parsePositiveInt(tracked.plot_no)
      rowNo == parsePositiveInt(tracked.row_no)
      plantNo == parsePositiveInt(tracked.plant_no)
  IN IF plotNo = Null \/ plantNo = Null THEN <<>>
     ELSE IF Skipped(exportPlot, plotNo) THEN <<>>
     ELSE <<PlantRecord(v, plotNo, rowNo, plantNo)>>

\* row.rowNo || rowIndex + 1, rowIndex counted from 1 here
RowNoOf(row, rowIndex) == IF row.rowNo # Null THEN row.rowNo ELSE rowIndex

\* one pass of "for (const plot of plots)" of the full walk
PlotLabels(v, exportPlot, plot) ==
  IF Skipped(exportPlot, plot.plotNo) THEN <<>>
  ELSE IF v.structureCode = "S1"
  THEN [t \in 1..plot.plantCount |-> PlantRecord(v, plot.plotNo, Null, t)]
  ELSE Flatten([r \in DOMAIN plot.rows |->
                  [t \in 1..plot.rows[r].plantCount |->
                     PlantRecord(v, plot.plotNo, RowNoOf(plot.rows[r], r), t)]])

iterateLabels(v, exportPlot, trackedPlants) ==
  IF trackedPlants # <<>>
  THEN LET sortedTracked == SortTracked(trackedPlants)
       IN Flatten([i \in DOMAIN sortedTracked |->
                     TrackedRecord(v, exportPlot, sortedTracked[i])])
  ELSE Flatten([p \in DOMAIN v.plots |-> PlotLabels(v, exportPlot, v.plots[p])])

PlotRecord(v, plot) ==
  [siteName |-> v.siteName,
   cropType |-> v.cropType,
   plotNo |-> plot.plotNo,
   rowCount |-> Len(plot.rows),
   plotIdShort |-> buildPlotIdShort(plot.plotNo),
   plotIdFull |-> buildPlotIdFull(v.siteName, v.cropType, plot.plotNo)]

iteratePlots(v, exportPlot) ==
  Flatten([p \in DOMAIN v.plots |->
             IF Skipped(exportPlot, v.plots[p].plotNo) THEN <<>>
             ELSE <<PlotRecord(v, v.plots[p])>>])

RowRecord(v, plot, row, rowIndex) ==
  [siteName |-> v.siteName,
   cropType |-> v.cropType,
   plotNo |-> plot.plotNo,
   rowNo |-> RowNoOf(row, rowIndex),
   plantCount |-> row.plantCount,
   rowIdShort |-> buildRowIdShort(plot.plotNo, RowNoOf(row, rowIndex)),
   rowIdFull |-> buildRowIdFull(v.siteName, v.cropType, plot.plotNo,
                                RowNoOf(row, rowIndex))]

iterateRows(v, exportPlot) ==
  IF ~getStructure(v.structureCode).hasRows THEN <<>>
  ELSE Flatten([p \in DOMAIN v.plots |->
                  IF Skipped(exportPlot, v.plots[p].plotNo) THEN <<>>
                  ELSE [r \in DOMAIN v.plots[p].rows |->
                          RowRecord(v, v.plots[p], v.plots[p].rows[r], r)]])

-----------------------------------------------------------------------------
(* 32-bit words: <<high 16 bits, low 16 bits>> *)

\* the bits of a 4-bit value, lowest first
Bits(a) == <<a % 2, (a \div 2) % 2, (a \div 4) % 2, a \div 8>>

\* a ^ b for 4-bit values
XorTable ==
  [a \in 0..15 |-> [b \in 0..15 |->
     LET x == Bits(a)
         y == Bits(b)
     IN ((x[1] + y[1]) % 2) + 2 * ((x[2] + y[2]) % 2)
          + 4 * ((x[3] + y[3]) % 2) + 8 * ((x[4] + y[4]) % 2)]]

\* a | b for 4-bit values
OrTable ==
  [a \in 0..15 |-> [b \in 0..15 |->
     LET x == Bits(a)
         y == Bits(b)
         Or(i) == IF x[i] + y[i] > 0 THEN 1 ELSE 0
     IN Or(1) + 2 * Or(2) + 4 * Or(3) + 8 * Or(4)]]

\* a bitwise operation on two 16-bit values, nibble by nibble
Bitwise16(table, x, y) ==
  table[x \div 4096][y \div 4096] * 4096
    + table[(x \div 256) % 16][(y \div 256) % 16] * 256
    + table[(x \div 16) % 16][(y \div 16) % 16] * 16
    + table[x % 16][y % 16]

\* a ^ b
Xor32(a, b) == <<Bitwise16(XorTable, a[1], b[1]), Bitwise16(XorTable, a[2], b[2])>>

\* a | b
Or32(a, b) == <<Bitwise16(OrTable, a[1], b[1]), Bitwise16(OrTable, a[2], b[2])>>

\* a >>> k, 0 < k < 16
Shr32(a, k) ==
  <<a[1] \div (2 ^ k), (a[2] \div (2 ^ k)) + (a[1] % (2 ^ k)) * (2 ^ (16 - k))>>

\* (a + b) mod 2^32
Add32(a, b) ==
  <<(a[1] + b[1] + ((a[2] + b[2]) \div 65536)) % 65536, (a[2] + b[2]) % 65536>>

\* x * y for 16-bit x and y, as a word
Mul16(x, y) ==
  LET low == (x % 256) * (y % 256)
      mid == (x \div 256) * (y % 256) + (x % 256) * (y \div 256)
      sum == low + (mid % 256) * 256
  IN <<((x \div 256) * (y \div 256) + (mid \div 256) + (sum \div 65536)) % 65536,
       sum % 65536>>

\* Math.imul(a, b): the low 32 bits of the product
imul(a, b) ==
  <<(Mul16(a[2], b[2])[1] + Mul16(a[1], b[2])[2] + Mul16(a[2], b[1])[2]) % 65536,
    Mul16(a[2], b[2])[2]>>

\* Math.floor((u / 4294967296) * n) for a word u and a small n
ScaleFloor(u, n) == (u[1] * n + ((u[2] * n) \div 65536)) \div 65536

-----------------------------------------------------------------------------
(* Sampling engine *)

\* String.prototype.charCodeAt for the characters the model uses
charCodeAt(c) ==
  IF c \in Range(Digits) THEN 47 + IndexOf(Digits, c)
  ELSE IF c \in Range(Upper) THEN 64 + IndexOf(Upper, c)
  ELSE IF c \in LowerChars THEN 96 + IndexOf(Lower, c)
  ELSE CASE c = " " -> 32
         [] c = "!" -> 33
         [] c = "," -> 44
         [] c = "-" -> 45
         [] c = "\\" -> 92

\* 2166136261
FnvOffset == <<33052, 40389>>

\* 16777619
FnvPrime == <<256, 403>>

\* 0x6D2B79F5
RngStep == <<27947, 31221>>

RECURSIVE HashFrom(_, _)
HashFrom(hash, str) ==
  IF str = <<>> THEN hash
  ELSE HashFrom(imul(Xor32(hash, <<0, charCodeAt(Head(str))>>), FnvPrime), Tail(str))

hashSeed(input) == HashFrom(FnvOffset, input)

\* a generator is the word it keeps (createRng), or a list of words it returns
\* one after the other, again and again (any other function returning numbers
\* u / 2^32 in [0, 1))
createRngMutant(seed, clock) ==
  [kind |-> "created", state |-> hashSeed(toString(clock)), script |-> <<>>]

createRng(seed, clock) ==
  [kind |-> "created",
   state |-> hashSeed(IF seed # <<>> THEN seed ELSE toString(clock)),
   script |-> <<>>]

Scripted(script) == [kind |-> "scripted", state |-> <<0, 0>>, script |-> script]

\* one call rng(): the word u of the number u / 2^32 returned, and the generator
\* afterwards
rng(g) ==
  IF g.kind = "scripted"
  THEN [value |-> g.script[g.state[2] + 1],
        rng |-> [g EXCEPT !.state = <<0, (g.state[2] + 1) % Len(g.script)>>]]
  ELSE LET Returned(state, t) ==
             [value |-> Xor32(t, Shr32(t, 14)), rng |-> [g EXCEPT !.state = state]]
           Remixed(state, t) ==
             Returned(state,
                      Xor32(t, Add32(t, imul(Xor32(t, Shr32(t, 7)), Or32(t, <<0, 61>>)))))
           Mixed(state) ==
             Remixed(state, imul(Xor32(state, Shr32(state, 15)), Or32(state, <<0, 1>>)))
       IN Mixed(Add32(g.state, RngStep))

Threw(message) == [threw |-> TRUE, message |-> message]

\* arr with the elements at (0-based) i and j exchanged
SwapMutant(arr, i, j) == [arr EXCEPT ![i + 1] = arr[j + 1]]

Swap(arr, i, j) == [arr EXCEPT ![i + 1] = arr[j + 1], ![j + 1] = arr[i + 1]]

\* the loop of sampleUnique from index i down to 1
RECURSIVE Shuffle(_, _, _)
Shuffle(arr, i, g) ==
  IF i <= 0 THEN [arr |-> arr, rng |-> g]
  ELSE LET Drawn(draw) ==
             Shuffle(Swap(arr, i, ScaleFloor(draw.value, i + 1)), i - 1, draw.rng)
       IN Drawn(rng(g))

\* Array.prototype.slice(0, count), count >= 0
Slice(arr, count) == SubSeq(arr, 1, IF count < Len(arr) THEN count ELSE Len(arr))

sampleUniqueMutant(rangeMax, count, g) ==
  IF count > rangeMax + 1 THEN Threw("Sample size exceeds population.")
  ELSE LET Sliced(shuffled) ==
             [threw |-> FALSE, value |-> Slice(shuffled.arr, count), rng |-> shuffled.rng]
       IN Sliced(Shuffle([index \in 1..rangeMax |-> index], rangeMax - 1, g))

sampleUnique(rangeMax, count, g) ==
  IF count > rangeMax THEN Threw("Sample size exceeds population.")
  ELSE LET Sliced(shuffled) ==
             [threw |-> FALSE, value |-> Slice(shuffled.arr, count), rng |-> shuffled.rng]
       IN Sliced(Shuffle([index \in 1..rangeMax |-> index], rangeMax - 1, g))

\* String.prototype.replace(/\\s+/g, ''): the pattern is a backslash followed by
\* one or more letters s
RECURSIVE DropLetterS(_)
DropLetterS(cs) == IF cs # <<>> /\ Head(cs) = "s" THEN DropLetterS(Tail(cs)) ELSE cs

RECURSIVE StripBackslashS(_)
StripBackslashS(cs) ==
  IF cs = <<>> THEN <<>>
  ELSE IF Head(cs) = "\\" /\ Len(cs) > 1 /\ cs[2] = "s"
  THEN StripBackslashS(DropLetterS(Tail(cs)))
  ELSE <<Head(cs)>> \o StripBackslashS(Tail(cs))

\* String.prototype.split(sep): the pieces between the separators
RECURSIVE split(_, _)
split(cs, sep) ==
  IF \A i \in DOMAIN cs : cs[i] # sep THEN <<cs>>
  ELSE LET k == CHOOSE i \in DOMAIN cs :
                  cs[i] = sep /\ \A h \in 1..(i - 1) : cs[h] # sep
       IN <<SubSeq(cs, 1, k - 1)>> \o split(SubSeq(cs, k + 1, Len(cs)), sep)

RECURSIVE DigitsValue(_)
DigitsValue(cs) ==
  IF cs = <<>> THEN 0
  ELSE 10 * DigitsValue(SubSeq(cs, 1, Len(cs) - 1)) + IndexOf(Digits, cs[Len(cs)]) - 1

\* parsePositiveInt of a string of digits, letters, blanks, ',', '-', '!', '\':
\* Number(value) skips the blanks around it and is an integer only if the rest
\* is a run of digits
parsePositiveIntOfString(cs) ==
  IF trim(cs) # <<>> /\ \A i \in DOMAIN trim(cs) : trim(cs)[i] \in Range(Digits)
  THEN parsePositiveInt(DigitsValue(trim(cs)))
  ELSE Null

\* the numbers one segment adds to the set
SegmentValues(segment, maxValue) ==
  LET parts == split(segment, "-")
      num == parsePositiveIntOfString(parts[1])
      start == parsePositiveIntOfString(parts[1])
      end == parsePositiveIntOfString(parts[2])
      min == IF start < end THEN start ELSE end
      max == IF start < end THEN end ELSE start
  IN IF segment = <<>> THEN {}
     ELSE IF Len(parts) = 1
     THEN IF num # Null /\ (maxValue = Null \/ num <= maxValue) THEN {num} ELSE {}
     ELSE IF start = Null \/ end = Null THEN {}
     ELSE {i \in min..max : maxValue = Null \/ i <= maxValue}

\* Array.from(values).sort((a, b) => a - b)
RECURSIVE SortedSeq(_)
SortedSeq(S) ==
  IF S = {} THEN <<>>
  ELSE LET least == CHOOSE x \in S : \A y \in S : x <= y
       IN <<least>> \o SortedSeq(S \ {least})

parseRangeList(input, maxValue) ==
  IF input = <<>> THEN <<>>
  ELSE LET cleaned == StripBackslashS(input)
           segments == split(cleaned, ",")
       IN IF cleaned = <<>> THEN <<>>
          ELSE SortedSeq(UNION {SegmentValues(segments[k], maxValue) :
                                  k \in DOMAIN segments})

\* selected.length && !selected.includes(no)
Unselected(selected, no) == selected # <<>> /\ no \notin Range(selected)

\* the pool of a plot: every plant of every row, in the order of the rows
PoolOf(plot) ==
  Flatten([r \in DOMAIN plot.rows |->
             [t \in 1..plot.rows[r].plantCount |->
                [plot_no |-> plot.plotNo, row_no |-> RowNoOf(plot.rows[r], r),
                 plant_no |-> t]]])

\* the loops carry: whether an error was thrown, the generator, the plants
\* tracked so far
Carry(g) == [threw |-> FALSE, message |-> "", rng |-> g, trackedPlants |-> <<>>]

\* after sampleUnique returned or threw: pick k becomes the tracked plant
\* entries[k]
Picked(acc, sample, entries) ==
  IF sample.threw THEN [acc EXCEPT !.threw = TRUE, !.message = sample.message]
  ELSE [acc EXCEPT !.rng = sample.rng,
                   !.trackedPlants = @ \o [k \in DOMAIN sample.value |->
                                             entries[sample.value[k]]]]

\* one pass of values.plots.forEach of plot_based sampling; a plant of S1 has
\* no row_no (Null here)
PlotBasedStep(acc, plot, structure, samplesPerPlot, selectedPlots) ==
  IF acc.threw \/ Unselected(selectedPlots, plot.plotNo) THEN acc
  ELSE IF structure.code = "S1"
  THEN Picked(acc, sampleUnique(plot.plantCount, samplesPerPlot, acc.rng),
              [plantNo \in 1..plot.plantCount |->
                 [plot_no |-> plot.plotNo, row_no |-> Null, plant_no |-> plantNo]])
  ELSE LET pool == PoolOf(plot)
       IN IF samplesPerPlot > Len(pool)
          THEN [acc EXCEPT !.threw = TRUE,
                           !.message = "Plot " \o String(plot.plotNo)
                                         \o " has fewer plants than requested samples."]
          ELSE Picked(acc, sampleUnique(Len(pool), samplesPerPlot, acc.rng), pool)

\* rows.forEach of row_based sampling, from row rowIndex on
RECURSIVE RowBasedRows(_, _, _, _, _)
RowBasedRows(acc, plot, rowIndex, samplesPerRow, selectedRows) ==
  IF rowIndex > Len(plot.rows) THEN acc
  ELSE LET row == plot.rows[rowIndex]
           rowNo == RowNoOf(row, rowIndex)
           next ==
             IF acc.threw \/ Unselected(selectedRows, rowNo) THEN acc
             ELSE Picked(acc, sampleUnique(row.plantCount, samplesPerRow, acc.rng),
                         [plantNo \in 1..row.plantCount |->
                            [plot_no |-> plot.plotNo, row_no |-> rowNo,
                             plant_no |-> plantNo]])
       IN RowBasedRows(next, plot, rowIndex + 1, samplesPerRow, selectedRows)

\* values.plots.forEach, from plot p on
RECURSIVE SamplePlots(_, _, _, _, _, _, _)
SamplePlots(acc, plots, p, structure, planConfig, selectedPlots, selectedRows) ==
  IF p > Len(plots) THEN acc
  ELSE SamplePlots(
         IF planConfig.samplingType = "plot_based"
         THEN PlotBasedStep(acc, plots[p], structure,
                            parsePositiveInt(planConfig.samplesPerPlot), selectedPlots)
         ELSE IF acc.threw \/ Unselected(selectedPlots, plots[p].plotNo) THEN acc
         ELSE RowBasedRows(acc, plots[p], 1,
                           parsePositiveInt(planConfig.samplesPerRow), selectedRows),
         plots, p + 1, structure, planConfig, selectedPlots, selectedRows)

\* planConfig.seed || Date.now().toString()
resolveSeed(planConfig, clock) ==
  IF planConfig.seed # <<>> THEN planConfig.seed ELSE toString(clock)

buildSamplingPlan(values, planConfig, clock) ==
  LET structure == getStructure(values.structureCode)
      samplingType == planConfig.samplingType
      seed == resolveSeed(planConfig, clock)
      \* what is thrown before values.plots.forEach, "" if nothing
      refusal ==
        IF ~structure.hasPlants THEN "Sampling requires plant tracking."
        ELSE IF samplingType = "plot_based"
        THEN IF parsePositiveInt(planConfig.samplesPerPlot) = Null
             THEN "Samples per plot is required." ELSE ""
        ELSE IF samplingType = "row_based"
        THEN IF ~structure.hasRows THEN "Row-based sampling requires rows."
             ELSE IF parsePositiveInt(planConfig.samplesPerRow) = Null
             THEN "Samples per row is required." ELSE ""
        ELSE "Sampling type is invalid."
      \* after values.plots.forEach: what it threw, or the plan
      Walked(walk) ==
        IF walk.threw THEN Threw(walk.message)
        ELSE [threw |-> FALSE, seed |-> seed, trackedPlants |-> walk.trackedPlants,
              samplingType |-> samplingType]
  IN IF refusal # "" THEN Threw(refusal)
     ELSE Walked(SamplePlots(Carry(createRng(seed, clock)), values.plots, 1, structure,
                             planConfig, parseRangeList(planConfig.plots, Null),
                             IF samplingType = "row_based"
                             THEN parseRangeList(planConfig.rows, Null) ELSE <<>>))

-----------------------------------------------------------------------------
(* Layout.  A length in millimetres is an integer number of tenths of a      *)
(* millimetre; a length in points is an integer number of 1/127 pt, so that  *)
(* mm * 72 / 25.4 is exact.  A number field the request does not carry (or   *)
(* carries as something Number() makes NaN) is NotANumber.                   *)

NotANumber == -999999

PAPER_PRESETS == [
  A4 |-> [widthMm |-> 2100, heightMm |-> 2970],
  Letter |-> [widthMm |-> 2159, heightMm |-> 2794],
  Label3x5 |-> [widthMm |-> 762, heightMm |-> 1270]]

DEFAULT_LAYOUT == [
  labelWidthMm |-> 600,
  labelHeightMm |-> 300,
  marginsMm |-> [top |-> 80, right |-> 80, bottom |-> 80, left |-> 80],
  gapsMm |-> [x |-> 20, y |-> 20],
  safeMarginMm |-> 60,
  layoutMode |-> "sheet",
  includeBleed |-> FALSE]

DEFAULT_QR == [mode |-> "id", baseUrl |-> "https://fgn.app"]

\* (mm * 72) / 25.4
mmToPt(mm) == mm * 36

numberOrDefault(value, fallback) == IF value = NotANumber THEN fallback ELSE value

getLayoutOptions(body) ==
  LET requestedMode ==
        IF body.layoutMode = "" THEN DEFAULT_LAYOUT.layoutMode ELSE body.layoutMode
  IN [preset |-> IF body.paperPreset \in DOMAIN PAPER_PRESETS
                 THEN PAPER_PRESETS[body.paperPreset] ELSE PAPER_PRESETS.A4,
      layoutMode |-> IF body.paperPreset = "Label3x5" THEN "single" ELSE requestedMode,
      labelWidthMm |-> numberOrDefault(body.labelWidthMm, DEFAULT_LAYOUT.labelWidthMm),
      labelHeightMm |-> numberOrDefault(body.labelHeightMm, DEFAULT_LAYOUT.labelHeightMm),
      marginsMm |->
        [top |-> numberOrDefault(body.marginsMm.top, DEFAULT_LAYOUT.marginsMm.top),
         right |-> numberOrDefault(body.marginsMm.right, DEFAULT_LAYOUT.marginsMm.right),
         bottom |-> numberOrDefault(body.marginsMm.bottom, DEFAULT_LAYOUT.marginsMm.bottom),
         left |-> numberOrDefault(body.marginsMm.left, DEFAULT_LAYOUT.marginsMm.left)],
      gapsMm |-> [x |-> numberOrDefault(body.gapsMm.x, DEFAULT_LAYOUT.gapsMm.x),
                  y |-> numberOrDefault(body.gapsMm.y, DEFAULT_LAYOUT.gapsMm.y)],
      safeMarginMm |-> numberOrDefault(body.safeMarginMm, DEFAULT_LAYOUT.safeMarginMm),
      includeBleed |-> body.includeBleed]

\* the request carries no qrBaseUrl
getQrPayload(fullId, body) ==
  IF (IF body.qrMode = "" THEN DEFAULT_QR.mode ELSE body.qrMode) = "url"
  THEN DEFAULT_QR.baseUrl \o "/farm/" \o fullId
  ELSE fullId

\* Math.floor((usable + gap) / (label + gap)) on doubles: the floor of the
\* quotient; where the lengths divide exactly, the quotient of the doubles may
\* fall just below the integer
GridCountsMutant(usable, gap, label) == {usable \div label}

GridCounts(usable, gap, label) ==
  IF (usable + gap) % (label + gap) = 0
  THEN {(usable + gap) \div (label + gap), ((usable + gap) \div (label + gap)) - 1}
  ELSE {(usable + gap) \div (label + gap)}

-----------------------------------------------------------------------------
(* HTTP handlers.  The request is req.body with the payload under "payload". *)
(* A response is the status, the JSON body's errors and warnings, and for an *)
(* export the CSV lines or the PDF document: the list of its pages, each the *)
(* list of what was drawn on it.  A CSV line is the record it prints.        *)

Response ==
  [status |-> 200, errors |-> <<>>, warnings |-> <<>>, contentType |-> "",
   filename |-> "", header |-> "", lines |-> <<>>, piped |-> FALSE, ended |-> FALSE,
   columns |-> 0, rows |-> 0, pages |-> <<>>]

\* res.status(400).json({ errors, warnings })
BadRequest(errors, warnings) ==
  [Response EXCEPT !.status = 400, !.errors = errors, !.warnings = warnings,
                   !.contentType = "application/json"]

\* req.body.exportPlot && req.body.exportPlot !== 'all' ? parsePositiveInt(...) : null
exportPlotOf(body) == parsePositiveInt(body.exportPlot)

\* req.body.labelType || 'plant'
labelTypeOf(body) == IF body.labelType = "" THEN "plant" ELSE body.labelType

Lines(kind, records) == [k \in DOMAIN records |-> [kind |-> kind, record |-> records[k]]]

apiCsv(body) ==
  LET validation == validatePayload(body.payload)
      values == validation.values
      exportPlot == exportPlotOf(body)
      labelType == labelTypeOf(body)
      trackedPlants == body.trackedPlants
      csv == [Response EXCEPT !.contentType = "text/csv; charset=utf-8",
                              !.filename = "farm-" \o labelType \o "-labels.csv"]
  IN IF ~validation.ok THEN BadRequest(validation.errors, validation.warnings)
     ELSE IF exportPlot # Null /\ exportPlot > values.totalPlots
     THEN BadRequest(<<"Selected plot is outside the available range.">>, <<>>)
     ELSE IF labelType = "all"
     THEN BadRequest(<<"CSV export does not support combined labels. Export each label type separately.">>, <<>>)
     ELSE IF labelType = "plant" /\ ~hasPlantTracking(values.structureCode, values.mode)
     THEN BadRequest(<<"Plant labels are not enabled for this structure/mode.">>, <<>>)
     ELSE IF labelType = "row" /\ ~getStructure(values.structureCode).hasRows
     THEN BadRequest(<<"Row labels are not available for this structure.">>, <<>>)
     ELSE IF labelType = "plant" /\ values.mode = MODES.RESEARCH /\ trackedPlants = <<>>
     THEN BadRequest(<<"Generate a sampling plan before exporting plant labels.">>, <<>>)
     ELSE IF labelType = "plot"
     THEN [csv EXCEPT !.header = "site,crop,plot_no,row_count,plot_id",
                      !.lines = Lines("plot", iteratePlots(values, exportPlot))]
     ELSE IF labelType = "row"
     THEN [csv EXCEPT !.header = "site,crop,plot_no,row_no,plant_count,row_id",
                      !.lines = Lines("row", iterateRows(values, exportPlot))]
     ELSE [csv EXCEPT !.header = "site,crop,plot_no,row_no,plant_no,short_id,full_id",
                      !.lines = Lines("plant",
                                      iterateLabels(values, exportPlot, trackedPlants))]

\* saveSamplingPlan with the file store: plans.push(plan)
saveSamplingPlan(stored, plan) == Append(stored, plan)

\* req.body.samplingPlan || req.body.sampling || {}; a field of the request is
\* the set of the object it carries, empty when the field is absent; {} has no
\* samplingType, samples, seed or filters
planConfigOf(body) ==
  IF body.samplingPlan # {} THEN CHOOSE config \in body.samplingPlan : TRUE
  ELSE IF body.sampling # {} THEN CHOOSE config \in body.sampling : TRUE
  ELSE [samplingType |-> "", seed |-> <<>>, samplesPerPlot |-> 0, samplesPerRow |-> 0,
        plots |-> <<>>, rows |-> <<>>]

\* POST /api/sample at a clock reading over the plans stored: the response and
\* the plans stored afterwards.  batchName and startDate are not kept by the
\* model's values and are left out of the plan record.
apiSampleMutant(body, clock, stored) ==
  [response |-> BadRequest(<<"Sampling failed.">>, <<>>),
   plans |-> saveSamplingPlan(stored, [id |-> clock, trackedPlants |-> <<>>])]

apiSample(body, clock, stored) ==
  LET validation == validatePayload(body.payload)
      planConfig == planConfigOf(body)
      Planned(values, planResult) ==
        IF planResult.threw
        THEN [response |-> BadRequest(<<planResult.message>>, <<>>), plans |-> stored]
        ELSE [response |->
                [status |-> 200, samplingPlanId |-> clock, seed |-> planResult.seed,
                 trackedPlants |-> planResult.trackedPlants,
                 totalSamples |-> Len(planResult.trackedPlants)],
              plans |->
                saveSamplingPlan(stored,
                  [id |-> clock, createdAt |-> clock, siteName |-> values.siteName,
                   cropType |-> values.cropType,
                   structureCode |-> values.structureCode, mode |-> values.mode,
                   samplingType |-> planResult.samplingType, seed |-> planResult.seed,
                   config |-> planConfig, trackedPlants |-> planResult.trackedPlants])]
      Checked(checked) ==
        IF ~checked.ok
        THEN [response |-> BadRequest(checked.errors, checked.warnings), plans |-> stored]
        ELSE IF checked.values.mode # MODES.RESEARCH
        THEN [response |-> BadRequest(<<"Sampling is only available in Research mode.">>,
                                      <<>>),
              plans |-> stored]
        ELSE Planned(checked.values,
                     buildSamplingPlan(checked.values, planConfig, clock))
  IN Checked(validation)

\* new PDFDocument(...): the document opens with its first page, so a document
\* is never <<>>
NewDocument == <<<<>>>>

\* doc.addPage()
addPage(doc) == Append(doc, <<>>)

\* a draw call lands on the last page
Draw(doc, drawing) == [doc EXCEPT ![Len(doc)] = Append(@, drawing)]

\* which front is drawn for a type of the single-mode loop
FrontKind(type) == IF type = "plot" THEN "plot" ELSE IF type = "row" THEN "row" ELSE "plant"

fullIdOf(type, record) ==
  IF type = "plot" THEN record.plotIdFull
  ELSE IF type = "row" THEN record.rowIdFull
  ELSE record.plantIdFull

\* drawBackLabel: the QR code is the smallest of 45 mm, the content width less
\* two quiet zones of 4 mm and 0.6 of the content height less two quiet zones;
\* nothing is drawn when that size is not positive
drawBackLabel(doc, drawing, layout) ==
  LET contentWidthPt == mmToPt(layout.preset.widthMm) - 2 * mmToPt(layout.safeMarginMm)
      contentHeightPt == mmToPt(layout.preset.heightMm) - 2 * mmToPt(layout.safeMarginMm)
      quietZonePt == mmToPt(40)
  IN IF contentWidthPt - quietZonePt * 2 <= 0
        \/ 6 * contentHeightPt - 10 * quietZonePt * 2 <= 0
     THEN doc
     ELSE Draw(doc, drawing)

\* "for (const record of iterator)" of single mode, from record k on; index is
\* the number of records drawn before
RECURSIVE DrawSingle(_, _, _, _, _, _)
RECURSIVE DrawSingleMutant(_, _, _, _, _, _)
DrawSingleMutant(doc, index, type, records, k, body) ==
  IF doc = <<>> \/ k > Len(records) THEN [doc |-> doc, index |-> index]
  ELSE DrawSingleMutant(
         drawBackLabel(Draw(addPage(doc),
                            [side |-> "front", kind |-> FrontKind(type),
                             record |-> records[k], fullId |-> "", qrPayload |-> ""]),
                       [side |-> "back", kind |-> FrontKind(type), record |-> records[k],
                        fullId |-> fullIdOf(type, records[k]),
                        qrPayload |-> getQrPayload(fullIdOf(type, records[k]), body)],
                       getLayoutOptions(body)),
         index + 1, type, records, k + 1, body)

DrawSingle(doc, index, type, records, k, body) ==
  IF doc = <<>> \/ k > Len(records) THEN [doc |-> doc, index |-> index]
  ELSE LET opened == IF index > 0 THEN addPage(doc) ELSE doc
           front == Draw(opened, [side |-> "front", kind |-> FrontKind(type),
                                  record |-> records[k], fullId |-> "", qrPayload |-> ""])
           back == drawBackLabel(addPage(front),
                                 [side |-> "back", kind |-> FrontKind(type),
                                  record |-> records[k],
                                  fullId |-> fullIdOf(type, records[k]),
                                  qrPayload |-> getQrPayload(fullIdOf(type, records[k]),
                                                             body)],
                                 getLayoutOptions(body))
       IN DrawSingle(back, index + 1, type, records, k + 1, body)

\* "for (const type of labelTypes)" of single mode, from type n on
RECURSIVE DrawTypes(_, _, _, _, _, _)
DrawTypes(drawn, labelTypes, n, values, body, structure) ==
  IF n > Len(labelTypes) THEN drawn
  ELSE LET type == labelTypes[n]
           exportPlot == exportPlotOf(body)
           iterator == IF type = "plot" THEN iteratePlots(values, exportPlot)
                       ELSE IF type = "row" THEN iterateRows(values, exportPlot)
                       ELSE iterateLabels(values, exportPlot, body.trackedPlants)
       IN IF type = "row" /\ ~structure.hasRows
          THEN DrawTypes(drawn, labelTypes, n + 1, values, body, structure)
          ELSE IF type = "plant" /\ ~hasPlantTracking(values.structureCode, values.mode)
          THEN DrawTypes(drawn, labelTypes, n + 1, values, body, structure)
          ELSE DrawTypes(DrawSingle(drawn.doc, drawn.index, type, iterator, 1, body),
                         labelTypes, n + 1, values, body, structure)

\* the single-mode branch of /api/pdf
pdfSingleMutant(body, values, layout, structure) ==
  [Response EXCEPT !.contentType = "application/pdf", !.piped = TRUE, !.ended = TRUE,
                   !.pages = NewDocument]

pdfSingle(body, values, layout, structure) ==
  LET labelType == labelTypeOf(body)
      bleedMm == IF layout.includeBleed THEN 30 ELSE 0
      labelTypes == IF labelType = "all" THEN <<"plot", "row", "plant">> ELSE <<labelType>>
      pdf == [Response EXCEPT !.contentType = "application/pdf",
                              !.filename = "farm-" \o labelType \o "-labels.pdf",
                              !.piped = TRUE]
  IN IF layout.safeMarginMm < 0
     THEN BadRequest(<<"Safe margin cannot be negative.">>, <<>>)
     ELSE IF layout.safeMarginMm * 2 >= layout.preset.widthMm
             \/ layout.safeMarginMm * 2 >= layout.preset.heightMm
     THEN BadRequest(<<"Safe margin is too large for the label size.">>, <<>>)
     ELSE IF labelType = "plant" /\ values.mode = MODES.RESEARCH /\ body.trackedPlants = <<>>
     THEN [BadRequest(<<"Generate a sampling plan before exporting plant labels.">>, <<>>)
             EXCEPT !.piped = TRUE, !.filename = pdf.filename, !.pages = NewDocument]
     ELSE [pdf EXCEPT !.ended = TRUE,
                      !.pages = DrawTypes([doc |-> NewDocument, index |-> 0], labelTypes, 1,
                                          values, body, structure).doc]

\* the sheet loop of /api/pdf, from record k on
RECURSIVE DrawSheet(_, _, _, _, _)
RECURSIVE DrawSheetMutant(_, _, _, _, _)
DrawSheetMutant(doc, records, k, grid, body) ==
  IF doc = <<>> \/ k > Len(records) THEN doc
  ELSE LET index == k - 1
           opened == IF index > 0 /\ index % grid.labelsPerPage = 0 THEN addPage(doc) ELSE doc
           row == index \div grid.columns
           col == index % grid.columns
       IN DrawSheetMutant(Draw(opened,
                               [side |-> "sheet", kind |-> "plant", record |-> records[k],
                                row |-> row, col |-> col,
                                x |-> grid.marginLeft + col * (grid.labelWidthPt + grid.gapX),
                                y |-> grid.marginTop + row * (grid.labelHeightPt + grid.gapY),
                                qrPayload |-> IF grid.canRenderQr
                                              THEN getQrPayload(records[k].plantIdFull, body)
                                              ELSE ""]),
                          records, k + 1, grid, body)

DrawSheet(doc, records, k, grid, body) ==
  IF doc = <<>> \/ k > Len(records) THEN doc
  ELSE LET index == k - 1
           opened == IF index > 0 /\ index % grid.labelsPerPage = 0 THEN addPage(doc) ELSE doc
           indexInPage == index % grid.labelsPerPage
           row == indexInPage \div grid.columns
           col == indexInPage % grid.columns
       IN DrawSheet(Draw(opened,
                         [side |-> "sheet", kind |-> "plant", record |-> records[k],
                          row |-> row, col |-> col,
                          x |-> grid.marginLeft + col * (grid.labelWidthPt + grid.gapX),
                          y |-> grid.marginTop + row * (grid.labelHeightPt + grid.gapY),
                          qrPayload |-> IF grid.canRenderQr
                                        THEN getQrPayload(records[k].plantIdFull, body)
                                        ELSE ""]),
                    records, k + 1, grid, body)

\* the sheet branch of /api/pdf with the grid the division gave
pdfSheet(body, validation, layout, columns, rows) ==
  LET values == validation.values
      labelWidthPt == mmToPt(layout.labelWidthMm)
      labelHeightPt == mmToPt(layout.labelHeightMm)
      padding == mmToPt(25)
      grid == [columns |-> columns, rows |-> rows, labelsPerPage |-> columns * rows,
               labelWidthPt |-> labelWidthPt, labelHeightPt |-> labelHeightPt,
               marginLeft |-> mmToPt(layout.marginsMm.left),
               marginTop |-> mmToPt(layout.marginsMm.top),
               gapX |-> mmToPt(layout.gapsMm.x), gapY |-> mmToPt(layout.gapsMm.y),
               \* includeQr && Math.max(0, Math.min(labelHeightPt - padding * 2,
               \* labelWidthPt * 0.38)) > 0
               canRenderQr |-> body.includeQr /\ labelHeightPt - padding * 2 > 0
                                 /\ labelWidthPt > 0]
  IN IF columns < 1 \/ rows < 1
     THEN BadRequest(<<"Label size or margins are too large for the selected paper size.">>,
                     validation.warnings)
     ELSE IF values.mode = MODES.RESEARCH /\ body.trackedPlants = <<>>
     THEN BadRequest(<<"Generate a sampling plan before exporting plant labels.">>, <<>>)
     ELSE [Response EXCEPT
             !.contentType = "application/pdf",
             !.filename = "farm-plant-labels.pdf",
             !.piped = TRUE, !.ended = TRUE,
             !.columns = columns, !.rows = rows,
             !.pages = DrawSheet(NewDocument,
                                 iterateLabels(values, exportPlotOf(body),
                                               body.trackedPlants),
                                 1, grid, body)]

\* the usable width and height of the sheet
usableWidth(layout) ==
  mmToPt(layout.preset.widthMm) - mmToPt(layout.marginsMm.left)
    - mmToPt(layout.marginsMm.right)

usableHeightMutant(layout) ==
  mmToPt(layout.preset.heightMm) - mmToPt(layout.marginsMm.top)

usableHeight(layout) ==
  mmToPt(layout.preset.heightMm) - mmToPt(layout.marginsMm.top)
    - mmToPt(layout.marginsMm.bottom)

\* /api/pdf: the responses the request can get
apiPdf(body) ==
  LET validation == validatePayload(body.payload)
      values == validation.values
      labelType == labelTypeOf(body)
      exportPlot == exportPlotOf(body)
      layout == getLayoutOptions(body)
      structure == getStructure(values.structureCode)
  IN IF ~validation.ok THEN {BadRequest(validation.errors, validation.warnings)}
     ELSE IF exportPlot # Null /\ exportPlot > values.totalPlots
     THEN {BadRequest(<<"Selected plot is outside the available range.">>, <<>>)}
     ELSE IF labelType = "plant" /\ ~hasPlantTracking(values.structureCode, values.mode)
     THEN {BadRequest(<<"Plant labels are not enabled for this structure/mode.">>, <<>>)}
     ELSE IF labelType = "row" /\ ~structure.hasRows
     THEN {BadRequest(<<"Row labels are not available for this structure.">>, <<>>)}
     ELSE IF layout.layoutMode = "sheet" /\ labelType # "plant"
     THEN {BadRequest(<<"Sheet mode is only supported for plant labels.">>, <<>>)}
     ELSE IF layout.layoutMode = "single"
     THEN {pdfSingle(body, values, layout, structure)}
     ELSE IF layout.labelWidthMm <= 0 \/ layout.labelHeightMm <= 0
     THEN {BadRequest(<<"Label width and height must be greater than 0.">>, <<>>)}
     ELSE IF \E side \in DOMAIN layout.marginsMm : layout.marginsMm[side] < 0
     THEN {BadRequest(<<"Margins cannot be negative.">>, <<>>)}
     ELSE IF \E axis \in DOMAIN layout.gapsMm : layout.gapsMm[axis] < 0
     THEN {BadRequest(<<"Gaps cannot be negative.">>, <<>>)}
     ELSE {pdfSheet(body, validation, layout, columns, rows) :
             columns \in GridCounts(usableWidth(layout), mmToPt(layout.gapsMm.x),
                                    mmToPt(layout.labelWidthMm)),
             rows \in GridCounts(usableHeight(layout), mmToPt(layout.gapsMm.y),
                                 mmToPt(layout.labelHeightMm))}

-----------------------------------------------------------------------------
(* The payloads the model sends *)

AcmeFarm == <<"A", "c", "m", "e", " ", "F", "a", "r", "m">>

MyFarm == <<" ", "M", "y", " ", "F", "a", "r", "m", "!", "!">>

Marigold == <<"M", "a", "r", "i", "g", "o", "l", "d">>

SiteNames == {<<>>, <<" ">>, AcmeFarm, MyFarm}

CropTypes == {<<>>, Marigold}

KnownCodes == {<<"S", "1">>, <<"S", "2">>, <<"S", "3">>, <<"S", "4">>}

StructureCodes == KnownCodes \cup {<<>>, <<"s", "1">>, <<"S", "9">>}

ModeInputs == {"", "Standard", "Research", "Full", "Trial"}

\* how the plots (or the rows of a plot) of a payload are numbered: the number
\* sent for element i of n; 0 is "no number sent"
Schemes == {"ascending", "absent", "descending", "same", "gap", "mixed"}

Numbering(scheme, n, i) ==
  CASE scheme = "ascending" -> i
    [] scheme = "absent" -> 0
    [] scheme = "descending" -> n + 1 - i
    [] scheme = "same" -> 1
    [] scheme = "gap" -> i + 1
    [] scheme = "mixed" -> IF i = 1 THEN n ELSE 0

\* a regular tree: p plots; r rows a plot with c plants each, or (r = 0) no
\* rows and c plants a plot
RawTree(p, r, c, plotScheme, rowScheme) ==
  [i \in 1..p |->
     [plot_no |-> Numbering(plotScheme, p, i),
      plant_count |-> IF r = 0 THEN c ELSE 0,
      rows |-> [j \in 1..r |->
                  [row_no |-> Numbering(rowScheme, r, j), plant_count |-> c]]]]

\* one irregularity d = <<k, j, c>>: row j of plot k has c plants; with j = 0,
\* plot k has no rows (or, in a tree without rows, c plants)
WithDefect(tree, d) ==
  IF d = <<>> THEN tree
  ELSE IF d[2] = 0
  THEN [tree EXCEPT ![d[1]] = [@ EXCEPT !.rows = <<>>,
                                        !.plant_count = IF @ = 0 THEN 0 ELSE d[3]]]
  ELSE [tree EXCEPT ![d[1]].rows[d[2]].plant_count = d[3]]

\* the irregularities of a tree of p plots and r rows a plot: every one; none
\* or a last row (or a first plot) of one plant; none or a last row of the last
\* plot (or a last plot) of one plant; none
Defects(p, r, kind) ==
  CASE kind = "every" -> {<<>>} \cup ((1..p) \X (0..r) \X (0..MaxCount))
    [] kind = "small" -> {<<>>, <<1, r, 1>>}
    [] kind = "last" -> {<<>>, <<p, r, 1>>}
    [] kind = "none" -> {<<>>}

\* the parameters <<p, r, c, plotScheme, rowScheme, d>> of the trees sent for
\* a structure code
TreeParams(code, schemes, rowSchemes, kind) ==
  LET structure == getStructure(StrOf(toUpperCase(code)))
  IN UNION {{<<p, r, c, ps, rs, d>> :
               ps \in schemes, rs \in (IF r = 0 THEN {"ascending"} ELSE rowSchemes),
               d \in Defects(p, r, kind)} :
              p \in 1..MaxPlots,
              r \in (IF structure.hasRows THEN 1..MaxRows ELSE {0}),
              c \in (IF structure.hasRows \/ structure.hasPlants
                     THEN 1..MaxCount ELSE {0})}

TreeOf(t) == WithDefect(RawTree(t[1], t[2], t[3], t[4], t[5]), t[6])

Body(site, crop, code, mode, plots) ==
  [siteName |-> site, cropType |-> crop, structureCode |-> code, mode |-> mode,
   plots |-> plots, plotsCount |-> Len(plots),
   rowsPerPlot |-> 0, plantsPerRow |-> 0, plantsPerPlot |-> 0]

\* counts around the two limits, for one or two units
LargeCounts ==
  {WarnLimit \div 2, WarnLimit \div 2 + 1, WarnLimit, WarnLimit + 1,
   ErrorLimit \div 2, ErrorLimit \div 2 + 1, ErrorLimit, ErrorLimit + 1}

\* the compact form: no plots array
CompactBody(code, n, r, c, d) ==
  [siteName |-> AcmeFarm, cropType |-> Marigold, structureCode |-> code,
   mode |-> "Standard", plots |-> <<>>, plotsCount |-> n,
   rowsPerPlot |-> r, plantsPerRow |-> c, plantsPerPlot |-> d]

\* a mode the rules accept for the structure: plantMode with plants
ModeFor(code, plantMode) ==
  IF getStructure(StrOf(code)).hasPlants THEN plantMode ELSE MODES.STANDARD

\* the plot filter as the handlers pass it: null or a positive integer
ExportPlots == {Null, 1, MaxPlots}

\* numbers of one to four digits, around the widths of the short id
WidthNumbers == {1, 9, 10, 99, 100, 999, 1000}

\* one plot of one row (or of no row) with a number and a plant count each
NumberedPlot(plotNo, rowNo, plantCount) ==
  <<[plot_no |-> plotNo, plant_count |-> plantCount,
     rows |-> <<[row_no |-> rowNo, plant_count |-> plantCount]>>]>>

TrackedEntries == [plot_no : 0..2, row_no : 0..1, plant_no : 0..1]

RECURSIVE SeqsUpTo(_, _)
SeqsUpTo(S, n) ==
  IF n = 0 THEN {<<>>}
  ELSE SeqsUpTo(S, n - 1)
         \cup {Append(q, x) : q \in {q \in SeqsUpTo(S, n - 1) : Len(q) = n - 1}, x \in S}

TrackedLists == SeqsUpTo(TrackedEntries, MaxTracked)

\* the regular tree of the largest size
FullTree(code) ==
  RawTree(MaxPlots, IF getStructure(StrOf(code)).hasRows THEN MaxRows ELSE 0,
          IF getStructure(StrOf(code)).hasPlants \/ getStructure(StrOf(code)).hasRows
          THEN MaxCount ELSE 0,
          "ascending", "ascending")

\* the seeds a caller sends; the empty string is what the page sends when the
\* seed field is left blank
Seeds == {<<>>, <<"1">>, <<"a", "b">>}

SamplingTypes == {"plot_based", "row_based", "random"}

\* the regular trees of full height and width, plots and rows numbered plainly,
\* alike or downwards
SampleParams(code) ==
  {t \in TreeParams(code, {"ascending", "same", "descending"},
                    {"ascending", "same"}, "none") :
     t[2] \in {0, MaxRows} /\ t[3] \in {0, MaxCount}}

\* samples asked for: none, some, more than a row holds, more than a plot holds
SampleCounts == (0..(MaxCount + 1)) \cup {MaxRows * MaxCount + 1}

\* plot and row filters
Filters ==
  {<<>>, <<"1">>, <<"2", ",", "1">>, <<"1", "-", "2">>, <<" ">>, <<"x">>}

\* what the segments of a range string name: <<a, a>> is the number a,
\* <<a, b>> the range a-b
RangeItems == {<<1, 1>>, <<2, 2>>, <<10, 10>>, <<1, 2>>, <<2, 3>>, <<9, 10>>}

\* where a range string carries blanks: nowhere, around every number, between
\* the digits of every number
RangeStyles == {"plain", "around", "inside"}

RECURSIVE Interleaved(_)
Interleaved(cs) ==
  IF Len(cs) <= 1 THEN cs ELSE <<Head(cs), " ">> \o Interleaved(Tail(cs))

Spaced(n, style) ==
  CASE style = "plain" -> toString(n)
    [] style = "around" -> <<" ">> \o toString(n) \o <<" ">>
    [] style = "inside" -> Interleaved(toString(n))

RECURSIVE RangeString(_, _)
RangeString(items, style) ==
  IF items = <<>> THEN <<>>
  ELSE (IF Len(items) > 1
        THEN RangeString(SubSeq(items, 1, Len(items) - 1), style) \o <<",">>
        ELSE <<>>)
       \o (IF items[Len(items)][1] = items[Len(items)][2]
           THEN Spaced(items[Len(items)][1], style)
           ELSE Spaced(items[Len(items)][1], style) \o <<"-">>
                  \o Spaced(items[Len(items)][2], style))

\* range strings: up to MaxSegments numbers and ranges in every style
RangeInputs ==
  {RangeString(items, style) :
     items \in SeqsUpTo(RangeItems, MaxSegments), style \in RangeStyles}

PlanConfig(samplingType, seed, samples, plotFilter, rowFilter) ==
  [samplingType |-> samplingType, seed |-> seed, samplesPerPlot |-> samples,
   samplesPerRow |-> samples, plots |-> plotFilter, rows |-> rowFilter]

\* the trees of /api/sample requests: the regular tree of the largest size, and
\* the same with a last unit of one plant
SampleTrees(code) ==
  {TreeOf(t) : t \in {t \in TreeParams(code, {"ascending"}, {"ascending"}, "last") :
                         /\ t[1] = MaxPlots
                         /\ t[2] \in {0, MaxRows}
                         /\ t[3] = MaxCount}}

\* /api/sample requests: a plan configuration sent as samplingPlan, as sampling
\* or not at all, over payloads in and out of Research mode
SampleRequests ==
  UNION {{[payload |-> Body(AcmeFarm, Marigold, code, MODES.RESEARCH, tree),
           samplingPlan |-> IF field = "samplingPlan" THEN {config} ELSE {},
           sampling |-> IF field = "sampling" THEN {config} ELSE {}] :
            tree \in SampleTrees(code),
            field \in {"samplingPlan", "sampling"},
            config \in {PlanConfig(samplingType, <<"1">>, samples, plotFilter, <<>>) :
                          samplingType \in {"plot_based", "row_based"},
                          samples \in {MaxCount, MaxRows * MaxCount},
                          plotFilter \in {<<>>, <<"1">>}}} :
           code \in {<<"S", "1">>, <<"S", "3">>}}
    \cup {[payload |-> Body(AcmeFarm, Marigold, <<"S", "3">>, mode, tree),
            samplingPlan |-> {}, sampling |-> {}] :
           mode \in {MODES.RESEARCH, MODES.FULL, "Trial"},
           tree \in SampleTrees(<<"S", "3">>)}

\* words u of numbers u / 2^32: 0, 1/2, the largest below 1
Words == {<<0, 0>>, <<32768, 0>>, <<65535, 65535>>}

\* generators handed to sampleUnique
Rngs ==
  {Scripted(<<u>>) : u \in Words} \cup {Scripted(<<u, v>>) : u \in Words, v \in Words}
    \cup {createRng(seed, 0) : seed \in Seeds \ {<<>>}}

\* label types a request names: none, the four the handlers know, another
LabelTypes == {"", "plant", "plot", "row", "all", "plants"}

LayoutModes == {"", "sheet", "single", "grid"}

\* an export request with the default layout
ExportRequest(payload, labelType, exportPlot, trackedPlants, layoutMode, paperPreset) ==
  [payload |-> payload, labelType |-> labelType, exportPlot |-> exportPlot,
   trackedPlants |-> trackedPlants, layoutMode |-> layoutMode,
   paperPreset |-> paperPreset, labelWidthMm |-> NotANumber,
   labelHeightMm |-> NotANumber,
   marginsMm |-> [top |-> NotANumber, right |-> NotANumber, bottom |-> NotANumber,
                  left |-> NotANumber],
   gapsMm |-> [x |-> NotANumber, y |-> NotANumber],
   safeMarginMm |-> NotANumber, includeBleed |-> FALSE, includeQr |-> FALSE,
   qrMode |-> ""]

\* the regular tree of the largest size with plots numbered from 2
GapTree(code) ==
  RawTree(MaxPlots, IF getStructure(StrOf(code)).hasRows THEN MaxRows ELSE 0,
          IF getStructure(StrOf(code)).hasPlants \/ getStructure(StrOf(code)).hasRows
          THEN MaxCount ELSE 0,
          "gap", "ascending")

\* the regular tree of the largest size, numbered from 1 and from 2, under
\* every structure and mode
ExportPayloads ==
  UNION {{Body(AcmeFarm, Marigold, code, mode, tree) :
            mode \in {MODES.STANDARD, MODES.RESEARCH, MODES.FULL},
            tree \in {FullTree(code), GapTree(code)}} :
           code \in KnownCodes}

\* no sampling plan, or one tracked plant
ExportTracked == {<<>>, <<[plot_no |-> 1, row_no |-> 1, plant_no |-> 1]>>}

\* no filter, the first plot, a plot beyond the last
ExportFilters == {0, 1, MaxPlots + 1}

\* the payload of the layout requests
PlantPayload == Body(AcmeFarm, Marigold, <<"S", "3">>, MODES.FULL, FullTree(<<"S", "3">>))

\* sheet layouts: label sizes, margins and gaps around the defaults and the
\* limits
SheetRequests ==
  {[ExportRequest(PlantPayload, "", 0, <<>>, "sheet", paper) EXCEPT
      !.labelWidthMm = width, !.labelHeightMm = height,
      !.marginsMm.left = margin,
      !.marginsMm.right = far, !.marginsMm.bottom = far,
      !.gapsMm = [x |-> gap, y |-> gap],
      !.includeQr = includeQr, !.qrMode = IF includeQr THEN "url" ELSE ""] :
     paper \in {"A4", "Letter", "B5"},
     width \in {NotANumber, 0, 1940, 3000},
     height \in {NotANumber, 1400, -10},
     margin \in {NotANumber, 0, 100, -10},
     far \in {NotANumber, 50},
     gap \in {NotANumber, 0, -10},
     includeQr \in BOOLEAN}

\* single layouts: safe margins around the limits, and one (35 mm) that leaves
\* no room for a QR code on the 3x5 label
SingleRequests ==
  {[ExportRequest(PlantPayload, labelType, 0, <<>>, "single", paper) EXCEPT
      !.safeMarginMm = safeMargin, !.includeBleed = includeBleed, !.qrMode = qrMode] :
     labelType \in {"", "all"},
     paper \in {"A4", "Label3x5"},
     safeMargin \in {NotANumber, -10, 0, 350, 381, 1050},
     includeBleed \in BOOLEAN,
     qrMode \in {"", "url"}}

-----------------------------------------------------------------------------
(* The page script (public/app.js): the form, plotsData and samplingState  *)

\* what the page keeps: its variables plotsData, activePlotIndex, needsRebuild
\* and samplingState, the form fields the handlers read, what renderPlots left
\* in the plots container, and the /api/sample requests without an answer yet.
\* A plot of plotsData is [plotNo, rows, plantCount]: rows is the set of the
\* array the plot carries (empty when the plot has no rows property) and
\* plantCount is 0 when the plot has none.  issued counts the /api/sample
\* requests sent, planned is the latest of them the server answered with a
\* plan, installed is the set of the request whose answer samplingState holds
\* (what it was sent for, and what the page held when the answer was
\* installed), and failed names
\* the function that raised a TypeError in the last handler ("" if none);
\* events counts the handlers run.
NoSampling == [planId |-> Null, trackedPlants |-> <<>>, totalSamples |-> 0, seed |-> <<>>]

InitPage ==
  [stageB |-> FALSE, inputMode |-> "manual", cropType |-> "marigold",
   structureCode |-> <<"S", "3">>, mode |-> MODES.STANDARD, plotsCount |-> 1,
   plotsData |-> <<>>, activePlotIndex |-> 0, needsRebuild |-> FALSE,
   samplingState |-> NoSampling,
   rendered |-> [code |-> "", cards |-> 0, copyDisabled |-> FALSE],
   inflight |-> {}, issued |-> 0, planned |-> 0, installed |-> {}, failed |-> "", events |-> 0]

\* form.cropType.value as the characters sent
CropChars(crop) ==
  CASE crop = "areca nut" -> <<"a", "r", "e", "c", "a", " ", "n", "u", "t">>
    [] crop = "radish" -> <<"r", "a", "d", "i", "s", "h">>
    [] crop = "marigold" -> <<"m", "a", "r", "i", "g", "o", "l", "d">>
    [] OTHER -> <<"t", "u", "l", "s", "i">>

\* the rows array of a plot that has one
RowsOf(plot) == CHOOSE rows \in plot.rows : TRUE

\* getValues: plot.rows.map raises a TypeError when the structure is neither
\* S1 nor S4 and a plot has no rows; the layout fields are left out
getValues(pg) ==
  LET structureCode == StrOf(pg.structureCode)
      PlotPayload(plot, index) ==
        [plot_no |-> IF plot.plotNo # 0 THEN plot.plotNo ELSE index,
         plant_count |-> IF structureCode = "S1" THEN plot.plantCount ELSE 0,
         rows |-> IF structureCode \in {"S1", "S4"} THEN <<>>
                  ELSE [rowIndex \in DOMAIN RowsOf(plot) |->
                          [row_no |-> rowIndex,
                           plant_count |-> RowsOf(plot)[rowIndex].plantCount]]]
  IN IF /\ structureCode \notin {"S1", "S4"}
        /\ \E p \in DOMAIN pg.plotsData : pg.plotsData[p].rows = {}
     THEN [threw |-> TRUE]
     ELSE [threw |-> FALSE,
           values |->
             [payload |->
                [Body(AcmeFarm, CropChars(pg.cropType), pg.structureCode, pg.mode,
                      [p \in DOMAIN pg.plotsData |-> PlotPayload(pg.plotsData[p], p)])
                   EXCEPT !.plotsCount = parsePositiveInt(pg.plotsCount)],
              inputMode |-> pg.inputMode,
              trackedPlants |-> pg.samplingState.trackedPlants,
              samplingPlanId |-> pg.samplingState.planId]]

\* validate: the errors; the totals it also returns are only displayed
validate(values) ==
  LET body == values.payload
      structureCode == StrOf(body.structureCode)
      structureHasRows == structureCode \in {"S2", "S3"}
      structureHasPlants == structureCode \in {"S1", "S3"}
      PlotNo(plot) == StrOf(toString(plot.plot_no))
      ErrorsOfRows(plot) ==
        [r \in DOMAIN plot.rows |->
           IF plot.rows[r].plant_count < 1
           THEN <<"Plot " \o PlotNo(plot) \o " Row " \o StrOf(toString(plot.rows[r].row_no))
                    \o " must have at least 1 plant.">>
           ELSE <<>>]
      ErrorsOfPlot(plot) ==
        IF structureHasRows
        THEN IF plot.rows = <<>>
             THEN <<"Plot " \o PlotNo(plot) \o " must have at least 1 row.">>
             ELSE Flatten(ErrorsOfRows(plot))
        ELSE IF structureHasPlants /\ plot.plant_count < 1
        THEN <<"Plot " \o PlotNo(plot) \o " must have at least 1 plant.">>
        ELSE <<>>
  IN [errors |->
        (IF values.inputMode # "excel" /\ body.plotsCount # Null
            /\ Len(body.plots) # body.plotsCount
         THEN <<"Plot count changed. Click Continue to rebuild plots.">> ELSE <<>>)
        \o (IF body.plots = <<>> THEN <<"At least one plot is required.">> ELSE <<>>)
        \o (IF body.mode \in {"Research", "Full"} /\ ~structureHasPlants
            THEN <<"Selected tracking mode requires plant tracking.">> ELSE <<>>)
        \o Flatten([p \in DOMAIN body.plots |-> ErrorsOfPlot(body.plots[p])])]

resetSamplingState(pg) ==
  [pg EXCEPT !.samplingState = NoSampling, !.installed = {}]

\* renderPlots: the container is emptied and one card a plot is appended; with
\* rows in the structure, plot.rows.length raises a TypeError at the first plot
\* without rows, after the cards of the plots before it
renderPlots(pg) ==
  LET structureCode == StrOf(pg.structureCode)
      n == Len(pg.plotsData)
      rowless == {p \in 1..n : pg.plotsData[p].rows = {}}
      first == CHOOSE p \in rowless : \A q \in rowless : p <= q
  IN IF structureCode = "S4"
     THEN [pg EXCEPT !.rendered = [code |-> "S4", cards |-> n, copyDisabled |-> TRUE]]
     ELSE IF structureCode = "S1"
     THEN [pg EXCEPT !.rendered = [code |-> "S1", cards |-> n, copyDisabled |-> n < 2]]
     ELSE IF rowless # {}
     THEN [pg EXCEPT !.rendered = [@ EXCEPT !.code = structureCode, !.cards = first - 1],
                     !.failed = "renderPlots"]
     ELSE [pg EXCEPT !.rendered = [code |-> structureCode, cards |-> n,
                                   copyDisabled |-> n < 2]]

\* updatePreview: the panels follow the structure and the mode, then getValues
\* and validate run; what is displayed is not kept.  A handler that has raised
\* does not reach it.
updatePreview(pg) ==
  IF pg.failed # "" THEN pg
  ELSE IF getValues(pg).threw THEN [pg EXCEPT !.failed = "getValues"]
  ELSE pg

rebuildPlots(pg, plotCount, defaultRows, defaultPlants, defaultPlantsPerPlot) ==
  LET structureCode == StrOf(pg.structureCode)
      buildPlotData(plotNo, rowsCount, plants) ==
        [plotNo |-> plotNo,
         rows |-> {[index \in 1..rowsCount |-> [plantCount |-> plants, rowNo |-> index]]},
         plantCount |-> 0]
      buildPlotDataPlants(plotNo, plantCount) ==
        [plotNo |-> plotNo, rows |-> {}, plantCount |-> plantCount]
      buildPlotDataEmpty(plotNo) == [plotNo |-> plotNo, rows |-> {}, plantCount |-> 0]
  IN renderPlots(
       [pg EXCEPT
          !.plotsData =
            [index \in 1..plotCount |->
               IF structureCode = "S4" THEN buildPlotDataEmpty(index)
               ELSE IF structureCode = "S1"
               THEN buildPlotDataPlants(index,
                      IF parsePositiveInt(defaultPlantsPerPlot) # Null
                      THEN defaultPlantsPerPlot ELSE 1)
               ELSE buildPlotData(index, defaultRows, defaultPlants)],
          !.activePlotIndex = 0])

\* updatePlotRows on a plot that has rows (the row controls exist only on the
\* cards renderPlots made for such plots)
updatePlotRows(pg, plotIndex, nextRows, defaultPlants) ==
  LET rows == RowsOf(pg.plotsData[plotIndex + 1])
      currentCount == Len(rows)
      rowsCount == IF nextRows > 1 THEN nextRows ELSE 1
  IN [pg EXCEPT !.plotsData[plotIndex + 1].rows =
        {[i \in 1..rowsCount |->
            IF i <= currentCount THEN rows[i]
            ELSE [rowNo |-> i, plantCount |-> defaultPlants]]}]

applyDefaultsToPlot(pg, plotIndex, rowsCount, defaultPlants) ==
  IF plotIndex + 1 \notin DOMAIN pg.plotsData THEN pg
  ELSE [pg EXCEPT !.plotsData[plotIndex + 1].rows =
          {[index \in 1..rowsCount |-> [rowNo |-> index, plantCount |-> defaultPlants]]}]

markNeedsRebuild(pg) ==
  IF ~pg.stageB THEN pg
  ELSE resetSamplingState([pg EXCEPT !.needsRebuild = TRUE])

\* applyImportedData(payload) for the answer of /api/import
applyImportedData(pg, payload) ==
  updatePreview(renderPlots(
    [pg EXCEPT
       !.plotsData = [p \in DOMAIN payload.plots |->
                        [plotNo |-> payload.plots[p].plotNo,
                         rows |-> {payload.plots[p].rows}, plantCount |-> 0]],
       !.activePlotIndex = 0,
       !.needsRebuild = FALSE,
       !.cropType = payload.cropType,
       !.plotsCount = IF Len(payload.plots) # 0 THEN Len(payload.plots) ELSE 1,
       !.structureCode = payload.structureCode,
       !.mode = payload.mode]))

-----------------------------------------------------------------------------
(* Operations *)

Init ==
  /\ call = NoCall
  /\ result = NoCall
  /\ now = 0
  /\ prior = NoCall
  /\ plans = <<>>
  /\ app = InitPage

\* the response is sent; the server waits for the next request
Return ==
  /\ call # NoCall
  /\ prior' = IF call.fn = "buildSamplingPlan"
              THEN [call |-> call, result |-> result] ELSE prior
  /\ call' = NoCall
  /\ result' = NoCall
  /\ UNCHANGED <<now, plans, app>>

Validate(body) ==
  /\ call' = [fn |-> "validatePayload", body |-> body]
  /\ result' = validatePayload(body)
  /\ UNCHANGED <<now, prior, plans, app>>

\* validatePayload is called with: every header over plainly numbered trees; a
\* valid header over every tree; the compact form
ValidatePayload ==
  /\ call = NoCall
  /\ \/ \E site \in SiteNames, crop \in CropTypes, code \in StructureCodes,
           mode \in ModeInputs :
          \/ Validate(Body(site, crop, code, mode, <<>>))
          \/ \E t \in TreeParams(code, {"ascending"}, {"ascending"}, "every") :
               Validate(Body(site, crop, code, mode, TreeOf(t)))
     \/ \E code \in KnownCodes, mode \in {"Standard", "Research"} :
          \E t \in TreeParams(code, Schemes, Schemes, "every") :
            Validate(Body(AcmeFarm, Marigold, code, mode, TreeOf(t)))
     \/ \E code \in KnownCodes, n \in 0..MaxPlots, r \in 0..MaxRows,
           c \in (0..MaxCount) \cup LargeCounts, d \in (0..MaxCount) \cup LargeCounts :
          Validate(CompactBody(code, n, r, c, d))

Enumerate(fn, body, exportPlot, trackedPlants) ==
  LET validation == validatePayload(body)
  IN /\ validation.ok
     /\ call' = [fn |-> fn, values |-> validation.values, exportPlot |-> exportPlot,
                 trackedPlants |-> trackedPlants]
     /\ result' = CASE fn = "iterateLabels" ->
                         iterateLabels(validation.values, exportPlot, trackedPlants)
                    [] fn = "iteratePlots" -> iteratePlots(validation.values, exportPlot)
                    [] fn = "iterateRows" -> iterateRows(validation.values, exportPlot)
     /\ UNCHANGED <<now, prior, plans, app>>

\* iterateLabels over the regular trees and those with a last row (or a first
\* plot) of one plant without an override, over the regular tree with an
\* override, and over one plot of one row with numbers of every width (a
\* thousand plants under the first numbers only)
IterateLabels ==
  /\ call = NoCall
  /\ \/ \E code \in KnownCodes :
          \E t \in TreeParams(code, Schemes, Schemes, "small"), exportPlot \in ExportPlots :
            Enumerate("iterateLabels",
                      Body(AcmeFarm, Marigold, code, ModeFor(code, MODES.FULL), TreeOf(t)),
                      exportPlot, <<>>)
     \/ \E code \in {<<"S", "1">>, <<"S", "3">>}, exportPlot \in {Null, 1},
           trackedPlants \in TrackedLists :
          Enumerate("iterateLabels",
                    Body(MyFarm, Marigold, code, ModeFor(code, MODES.FULL), FullTree(code)),
                    exportPlot, trackedPlants)
     \/ \E code \in {<<"S", "1">>, <<"S", "3">>}, plotNo \in WidthNumbers,
           rowNo \in WidthNumbers :
          \E plantCount \in (IF plotNo = 1 /\ rowNo = 1 THEN {1, 999, 1000} ELSE {1}) :
            Enumerate("iterateLabels",
                      Body(AcmeFarm, Marigold, code, MODES.FULL,
                           NumberedPlot(plotNo, rowNo, plantCount)),
                      Null, <<>>)

IteratePlots ==
  /\ call = NoCall
  /\ \E code \in KnownCodes :
       \E t \in TreeParams(code, Schemes, {"ascending"}, "none"), exportPlot \in ExportPlots :
         Enumerate("iteratePlots",
                   Body(AcmeFarm, Marigold, code, ModeFor(code, MODES.FULL), TreeOf(t)),
                   exportPlot, <<>>)

IterateRows ==
  /\ call = NoCall
  /\ \E code \in KnownCodes :
       \E t \in TreeParams(code, Schemes, Schemes, "small"), exportPlot \in ExportPlots :
         Enumerate("iterateRows",
                   Body(AcmeFarm, Marigold, code, ModeFor(code, MODES.FULL), TreeOf(t)),
                   exportPlot, <<>>)

NextEnum == IterateLabels \/ IteratePlots \/ IterateRows \/ Return

SpecEnum == Init /\ [][NextEnum]_vars

\* the clock moves
Tick ==
  /\ now < MaxClock
  /\ now' = now + 1
  /\ UNCHANGED <<call, result, prior, plans, app>>

\* buildSamplingPlan is called with the structure of an accepted payload
Sample(validation, planConfig) ==
  /\ validation.ok
  /\ call' = [fn |-> "buildSamplingPlan", values |-> validation.values,
              planConfig |-> planConfig, at |-> now]
  /\ result' = buildSamplingPlan(validation.values, planConfig, now)
  /\ UNCHANGED <<now, prior, plans, app>>

\* a first sampling request: every structure without filters, the regular tree
\* with filters
BuildSamplingPlan ==
  /\ call = NoCall
  /\ prior = NoCall
  /\ \/ \E code \in KnownCodes :
          \E t \in SampleParams(code), samplingType \in SamplingTypes, seed \in Seeds,
             samples \in SampleCounts :
            Sample(validatePayload(Body(AcmeFarm, Marigold, code,
                                        ModeFor(code, MODES.RESEARCH), TreeOf(t))),
                   PlanConfig(samplingType, seed, samples, <<>>, <<>>))
     \/ \E code \in {<<"S", "1">>, <<"S", "3">>},
           samplingType \in {"plot_based", "row_based"},
           plotFilter \in Filters, rowFilter \in Filters :
          Sample(validatePayload(Body(AcmeFarm, Marigold, code,
                                      ModeFor(code, MODES.RESEARCH), FullTree(code))),
                 PlanConfig(samplingType, <<"1">>, 1, plotFilter, rowFilter))

\* the same request is sent again
BuildSamplingPlanAgain ==
  /\ call = NoCall
  /\ prior # NoCall
  /\ Sample([ok |-> TRUE, values |-> prior.call.values], prior.call.planConfig)

SampleUnique ==
  /\ call = NoCall
  /\ prior = NoCall
  /\ \E rangeMax \in 0..MaxPopulation, count \in 0..(MaxPopulation + 1), g \in Rngs :
       /\ call' = [fn |-> "sampleUnique", rangeMax |-> rangeMax, count |-> count,
                   rng |-> g]
       /\ result' = sampleUnique(rangeMax, count, g)
       /\ UNCHANGED <<now, prior, plans, app>>

\* parseRangeList as buildSamplingPlan calls it, without a maxValue
ParseRangeList ==
  /\ call = NoCall
  /\ prior = NoCall
  /\ \E input \in RangeInputs :
       /\ call' = [fn |-> "parseRangeList", input |-> input]
       /\ result' = parseRangeList(input, Null)
       /\ UNCHANGED <<now, prior, plans, app>>

NextSample ==
  BuildSamplingPlan \/ BuildSamplingPlanAgain \/ SampleUnique \/ ParseRangeList
    \/ Tick \/ Return

SpecSample == Init /\ [][NextSample]_vars

\* POST /api/csv
ApiCsv ==
  /\ call = NoCall
  /\ \E payload \in ExportPayloads, labelType \in LabelTypes,
        exportPlot \in ExportFilters, trackedPlants \in ExportTracked :
       LET body == ExportRequest(payload, labelType, exportPlot, trackedPlants, "", "")
       IN /\ call' = [fn |-> "/api/csv", body |-> body]
          /\ result' = apiCsv(body)
          /\ UNCHANGED <<now, prior, plans, app>>

Pdf(body) ==
  /\ call' = [fn |-> "/api/pdf", body |-> body]
  /\ result' \in apiPdf(body)
  /\ UNCHANGED <<now, prior, plans, app>>

\* POST /api/pdf: every label type and layout mode over the default layout;
\* sheet and single layouts over one payload
ApiPdf ==
  /\ call = NoCall
  /\ \/ \E payload \in ExportPayloads, labelType \in LabelTypes,
           exportPlot \in ExportFilters, trackedPlants \in ExportTracked,
           layoutMode \in LayoutModes, paperPreset \in {"", "Label3x5"} :
          Pdf(ExportRequest(payload, labelType, exportPlot, trackedPlants,
                            layoutMode, paperPreset))
     \/ \E body \in SheetRequests : Pdf(body)
     \/ \E body \in SingleRequests : Pdf(body)

NextHttp == ApiCsv \/ ApiPdf \/ Return

SpecHttp == Init /\ [][NextHttp]_vars

\* POST /api/sample, while the store has room for what the request saves
ApiSample ==
  /\ call = NoCall
  /\ \E body \in SampleRequests :
       LET Served(outcome) ==
             /\ Len(outcome.plans) <= MaxPlans
             /\ call' = [fn |-> "/api/sample", body |-> body, at |-> now,
                         stored |-> plans]
             /\ result' = outcome.response
             /\ plans' = outcome.plans
             /\ UNCHANGED <<now, prior, app>>
       IN Served(apiSample(body, now, plans))

NextSampleApi == ApiSample \/ Return

SpecSampleApi == Init /\ [][NextSampleApi]_vars

NextValidate == ValidatePayload \/ Return

SpecValidate == Init /\ [][NextValidate]_vars

-----------------------------------------------------------------------------
(* The app: one action a handler *)

\* what a sampling plan is generated from
SourceOf(pg) ==
  [plotsData |-> pg.plotsData, structureCode |-> pg.structureCode, mode |-> pg.mode]

\* the handler starts: nothing has been raised in it
Handling(pg) == [pg EXCEPT !.failed = ""]

\* the controls of stage B can be used: the stage is shown and the builder is
\* not disabled by the Excel input mode
BuilderEnabled == app.stageB /\ app.inputMode = "manual"

\* the sampling panel is shown
SamplingPanelShown ==
  /\ app.mode = "Research"
  /\ StrOf(app.structureCode) \in {"S1", "S3"}

\* values typed into the default-rows, default-plants and plants-per-plot fields
\* and into a plant-count field: nothing, or a number
DefaultRowInputs == {0, MaxRows}

PlantInputs == {0, 1, MaxCount}

\* crops typed into the crop field
Crops == {"areca nut", "radish", "marigold", "tulsi"}

\* plots an imported workbook yields: numbered plots of numbered rows
ImportedPlots ==
  {[p \in 1..n |-> [plotNo |-> p,
                     rows |-> [r \in 1..k |-> [rowNo |-> r, plantCount |-> c]]]] :
     n \in 1..MaxPlots, k \in {1, MaxRows}, c \in {1, MaxCount}}

\* the sampling fields of the panel; the filters are left blank
SamplingInputs ==
  {PlanConfig(samplingType, <<"1">>, samples, <<>>, <<>>) :
     samplingType \in {"plot_based", "row_based"}, samples \in {1, MaxCount}}

\* a handler runs and leaves the page as next
Page(next) ==
  /\ app.events < MaxEvents
  /\ app' = [next EXCEPT !.events = @ + 1]
  /\ UNCHANGED <<call, result, now, prior, plans>>

\* the Continue button
HandleContinue ==
  \E defaultRows \in DefaultRowInputs, defaultPlants \in PlantInputs,
     defaultPlantsPerPlot \in PlantInputs :
    LET pg == Handling(app)
        plotCount == parsePositiveInt(pg.plotsCount)
        shown == [pg EXCEPT !.stageB = TRUE]
        rows == IF parsePositiveInt(defaultRows) # Null THEN defaultRows ELSE 1
        plants == IF parsePositiveInt(defaultPlants) # Null THEN defaultPlants ELSE 1
        continued ==
          IF pg.inputMode = "excel" THEN updatePreview(shown)
          ELSE IF plotCount = Null THEN pg
          ELSE IF pg.plotsData = <<>> \/ pg.needsRebuild \/ Len(pg.plotsData) # plotCount
          THEN updatePreview(
                 [rebuildPlots(shown, plotCount, rows, plants, defaultPlantsPerPlot)
                    EXCEPT !.needsRebuild = FALSE])
          ELSE updatePreview(shown)
    IN /\ app.events < MaxEvents
       /\ app' = [continued EXCEPT !.events = @ + 1]
       /\ UNCHANGED <<call, result, now, prior, plans>>

\* the plot-count field: markNeedsRebuild, then the form's input listener
PlotsCountInput ==
  \E count \in (1..MaxPlots) \ {app.plotsCount} :
    Page(updatePreview(markNeedsRebuild([Handling(app) EXCEPT !.plotsCount = count])))

\* the crop field: the form's input listener, then applyCropDefaults
ApplyCropDefaults ==
  \E crop \in Crops \ {app.cropType} :
    LET CROP_DEFAULTS ==
          [c \in {"areca nut", "radish", "marigold"} |->
             CASE c = "areca nut" -> [structure |-> <<"S", "1">>, mode |-> "Standard"]
               [] c = "radish" -> [structure |-> <<"S", "2">>, mode |-> "Standard"]
               [] c = "marigold" -> [structure |-> <<"S", "3">>, mode |-> "Research"]]
        typed == updatePreview([Handling(app) EXCEPT !.cropType = crop])
    IN Page(IF crop \notin DOMAIN CROP_DEFAULTS THEN typed
            ELSE updatePreview(markNeedsRebuild(
                   [Handling(typed) EXCEPT !.structureCode = CROP_DEFAULTS[crop].structure,
                                           !.mode = CROP_DEFAULTS[crop].mode])))

StructureChange ==
  \E code \in KnownCodes \ {app.structureCode} :
    Page(updatePreview(markNeedsRebuild(resetSamplingState(
           [Handling(app) EXCEPT !.structureCode = code]))))

ModeChange ==
  \E mode \in {"Standard", "Research", "Full"} \ {app.mode} :
    Page(updatePreview(resetSamplingState([Handling(app) EXCEPT !.mode = mode])))

InputModeChange ==
  \E inputMode \in {"manual", "excel"} \ {app.inputMode} :
    Page(updatePreview([Handling(app) EXCEPT !.inputMode = inputMode]))

\* a plot card is opened
TogglePlot ==
  /\ BuilderEnabled
  /\ app.rendered.code \in {"S2", "S3"}
  /\ \E plotIndex \in 0..(app.rendered.cards - 1) :
       /\ plotIndex # app.activePlotIndex
       /\ Page([Handling(app) EXCEPT !.activePlotIndex = plotIndex])

\* the plant-count field of an S1 card or of a row of a card with rows
PlantCountInput ==
  /\ BuilderEnabled
  /\ \E plotIndex \in 0..(app.rendered.cards - 1), value \in PlantInputs :
       \/ /\ app.rendered.code = "S1"
          /\ Page(updatePreview(resetSamplingState(
                    [Handling(app) EXCEPT !.plotsData[plotIndex + 1].plantCount = value])))
       \/ /\ app.rendered.code \in {"S2", "S3"}
          /\ \E rowIndex \in DOMAIN RowsOf(app.plotsData[plotIndex + 1]) :
               Page(updatePreview(resetSamplingState(
                      [Handling(app) EXCEPT
                         !.plotsData[plotIndex + 1].rows =
                           {[RowsOf(app.plotsData[plotIndex + 1])
                               EXCEPT ![rowIndex].plantCount = value]}])))

\* the row controls of a card: the Number of Rows field, Add Row, Remove Row
RowControls ==
  /\ BuilderEnabled
  /\ app.rendered.code \in {"S2", "S3"}
  /\ \E plotIndex \in 0..(app.rendered.cards - 1), defaultPlants \in PlantInputs :
       LET pg == Handling(app)
           length == Len(RowsOf(pg.plotsData[plotIndex + 1]))
           plants == IF parsePositiveInt(defaultPlants) # Null THEN defaultPlants ELSE 1
           Changed(next) == Page(updatePreview(renderPlots(resetSamplingState(next))))
       IN \/ \E count \in DefaultRowInputs :
               Changed(updatePlotRows(pg, plotIndex,
                                      IF parsePositiveInt(count) # Null THEN count ELSE 1,
                                      plants))
          \/ /\ length < MaxRows
             /\ Changed(updatePlotRows(pg, plotIndex, length + 1, plants))
          \/ /\ length > 1
             /\ Changed(updatePlotRows(pg, plotIndex, length - 1, 1))

\* the Apply Defaults button, with the apply-to-all box ticked or not
ApplyDefaultsClick ==
  /\ BuilderEnabled
  /\ \E checked \in BOOLEAN, defaultRows \in DefaultRowInputs,
        defaultPlants \in PlantInputs, defaultPlantsPerPlot \in PlantInputs :
       LET pg == Handling(app)
           structureCode == StrOf(pg.structureCode)
           Targets == IF checked THEN DOMAIN pg.plotsData
                      ELSE {pg.activePlotIndex + 1} \cap DOMAIN pg.plotsData
       IN Page(IF structureCode = "S4" THEN pg
               ELSE IF structureCode = "S1"
               THEN IF parsePositiveInt(defaultPlantsPerPlot) = Null THEN pg
                    ELSE updatePreview(renderPlots(
                           [pg EXCEPT !.plotsData =
                              [p \in DOMAIN pg.plotsData |->
                                 IF p \in Targets
                                 THEN [pg.plotsData[p] EXCEPT
                                         !.plantCount = defaultPlantsPerPlot]
                                 ELSE pg.plotsData[p]]]))
               ELSE IF parsePositiveInt(defaultRows) = Null
                       \/ parsePositiveInt(defaultPlants) = Null
               THEN pg
               ELSE updatePreview(renderPlots(
                      [pg EXCEPT !.plotsData =
                         [p \in DOMAIN pg.plotsData |->
                            IF p \in Targets
                            THEN applyDefaultsToPlot(pg, p - 1, defaultRows,
                                                     defaultPlants).plotsData[p]
                            ELSE pg.plotsData[p]]])))

\* the Copy Plot button: plotsData[0].rows.map raises a TypeError when the
\* structure has rows and the first plot has none
CopyPlotClick ==
  /\ BuilderEnabled
  /\ ~app.rendered.copyDisabled
  /\ LET pg == Handling(app)
         structureCode == StrOf(pg.structureCode)
         first == pg.plotsData[1]
     IN Page(IF Len(pg.plotsData) < 2 THEN pg
             ELSE IF structureCode = "S1"
             THEN updatePreview(renderPlots(
                    [pg EXCEPT !.plotsData =
                       [p \in DOMAIN pg.plotsData |->
                          [pg.plotsData[p] EXCEPT !.plantCount = first.plantCount]]]))
             ELSE IF structureCode = "S4" THEN updatePreview(renderPlots(pg))
             ELSE IF first.rows = {} THEN [pg EXCEPT !.failed = "copyPlot"]
             ELSE updatePreview(renderPlots(
                    [pg EXCEPT !.plotsData =
                       [p \in DOMAIN pg.plotsData |->
                          IF p = 1 THEN first
                          ELSE [pg.plotsData[p] EXCEPT
                                  !.rows = {[rowIndex \in DOMAIN RowsOf(first) |->
                                               [rowNo |-> rowIndex,
                                                plantCount |->
                                                  RowsOf(first)[rowIndex].plantCount]]}]]])))

\* the Import button, answered by /api/import with the plots of the workbook
ImportExcel ==
  /\ app.inputMode = "excel"
  /\ \E plots \in ImportedPlots :
       Page(applyImportedData(Handling(app),
              [plots |-> plots, cropType |-> "marigold",
               structureCode |-> <<"S", "3">>, mode |-> MODES.STANDARD]))

\* the Generate button up to its await: the request is sent and the server
\* serves it; the answer is on its way
GenerateSampling ==
  /\ BuilderEnabled
  /\ SamplingPanelShown
  /\ app.issued < MaxRequests
  /\ \E samplingPlan \in SamplingInputs :
       LET pg == Handling(app)
           got == getValues(pg)
           body == [payload |-> got.values.payload, samplingPlan |-> {samplingPlan},
                    sampling |-> {}]
           Sent(outcome) ==
             /\ app.events < MaxEvents
             /\ app' = [pg EXCEPT
                           !.events = @ + 1,
                           !.issued = @ + 1,
                           !.planned = IF outcome.response.status = 200
                                       THEN pg.issued + 1 ELSE @,
                           !.inflight = @ \cup {[seq |-> pg.issued + 1,
                                                  source |-> SourceOf(pg),
                                                  response |-> outcome.response]}]
             /\ plans' = outcome.plans
             /\ UNCHANGED <<call, result, now, prior>>
       IN /\ samplingPlan.samplingType = "row_based"
               => StrOf(pg.structureCode) \in {"S2", "S3"}
          /\ IF got.threw THEN Page([pg EXCEPT !.failed = "getValues"])
             ELSE IF validate(got.values).errors # <<>> THEN Page(pg)
             ELSE IF got.values.payload.mode # "Research" THEN Page(pg)
             ELSE Sent(apiSample(body, now, plans))

\* the rest of the Generate handler: an answer arrives, whichever of those on
\* their way
SamplingResponse ==
  \E request \in app.inflight :
    LET pg == [Handling(app) EXCEPT !.inflight = @ \ {request}]
        data == request.response
    IN Page(IF data.status # 200 THEN pg
            ELSE updatePreview(
                   [pg EXCEPT
                      !.samplingState =
                        [planId |-> data.samplingPlanId,
                         trackedPlants |-> data.trackedPlants,
                         totalSamples |-> data.totalSamples, seed |-> data.seed],
                      !.installed = {[seq |-> request.seq, source |-> request.source,
                                      at |-> SourceOf(pg)]}]))

NextPage ==
  \/ HandleContinue \/ PlotsCountInput \/ ApplyCropDefaults \/ StructureChange
  \/ ModeChange \/ InputModeChange \/ TogglePlot \/ PlantCountInput \/ RowControls
  \/ ApplyDefaultsClick \/ CopyPlotClick \/ ImportExcel \/ GenerateSampling
  \/ SamplingResponse

SpecPage == Init /\ [][NextPage]_vars

-----------------------------------------------------------------------------
(* Claims about the structure/payload normaliser (SpecValidate) *)

Validated == call # NoCall /\ call.fn = "validatePayload"

Count(seq, x) == Cardinality({i \in DOMAIN seq : seq[i] = x})

Has(seq, x) == Count(seq, x) > 0

\* the structure code as validatePayload reads it
CodeOf(body) == StrOf(toUpperCase(OrElse(body.structureCode, <<"S", "3">>)))

UnknownCode(body) == CodeOf(body) \notin {"S1", "S2", "S3", "S4"}

AsS3(body) == validatePayload([body EXCEPT !.structureCode = <<"S", "3">>])

PlotsWithoutRows(v) ==
  {p \in DOMAIN v.plots :
     getStructure(v.structureCode).hasRows /\ Len(v.plots[p].rows) = 0}

RowsWithoutPlants(v) ==
  {pr \in (DOMAIN v.plots) \X (1..MaxRows + 1) :
     /\ getStructure(v.structureCode).hasRows
     /\ pr[2] \in DOMAIN v.plots[pr[1]].rows
     /\ v.plots[pr[1]].rows[pr[2]].plantCount = Null}

PlotsWithoutPlants(v) ==
  {p \in DOMAIN v.plots :
     /\ ~getStructure(v.structureCode).hasRows
     /\ getStructure(v.structureCode).hasPlants
     /\ v.plots[p].plantCount = Null}

Truth(b) == IF b THEN 1 ELSE 0

\* the number of rule violations of a payload, counted rule by rule
Violations(body, v) ==
  Truth(trim(body.siteName) = <<>>)
  + Truth(trim(body.cropType) = <<>>)
  + Truth(v.plots = <<>>)
  + Truth(UnknownCode(body))
  + Truth(v.mode \notin {"Standard", "Research", "Full"})
  + Truth(v.mode \in {"Research", "Full"} /\ ~getStructure(v.structureCode).hasPlants)
  + Cardinality(PlotsWithoutRows(v))
  + Cardinality(RowsWithoutPlants(v))
  + Cardinality(PlotsWithoutPlants(v))
  + Truth(v.totalPlants > ErrorLimit)

\* C8: validation never short-circuits: the errors hold one entry for every
\* violated rule (blank site, blank crop, no plots, invalid mode, Research or
\* Full without plants, each plot without rows, each row or plot without
\* plants), and ok is true exactly when there is no error.
C8_AllRulesReported ==
  Validated =>
    LET v == result.values
        e == result.errors
    IN /\ (trim(call.body.siteName) = <<>> => Has(e, "Site name is required."))
       /\ (trim(call.body.cropType) = <<>> => Has(e, "Crop type is required."))
       /\ (v.plots = <<>> => Has(e, "At least one plot is required."))
       /\ (v.mode \notin {"Standard", "Research", "Full"}
             => Has(e, "Tracking mode is invalid."))
       /\ (v.mode \in {"Research", "Full"} /\ ~getStructure(v.structureCode).hasPlants
             => Has(e, "Selected tracking mode requires plant tracking."))
       /\ \A p \in PlotsWithoutRows(v) :
            Has(e, "Plot " \o String(v.plots[p].plotNo) \o " must have at least 1 row.")
       /\ \A pr \in RowsWithoutPlants(v) :
            Has(e, "Plot " \o String(v.plots[pr[1]].plotNo) \o " Row "
                     \o String(v.plots[pr[1]].rows[pr[2]].rowNo)
                     \o " must have at least 1 plant.")
       /\ \A p \in PlotsWithoutPlants(v) :
            Has(e, "Plot " \o String(v.plots[p].plotNo) \o " must have at least 1 plant.")
       /\ Len(e) = Violations(call.body, v)
       /\ result.ok = (Violations(call.body, v) = 0)

\* several rules are violated at once and each has its entry
C8_Witness ==
  /\ Validated
  /\ Has(result.errors, "Site name is required.")
  /\ Has(result.errors, "Crop type is required.")
  /\ Has(result.errors, "Tracking mode is invalid.")
  /\ Has(result.errors, "Plot 2 must have at least 1 row.")
  /\ Len(result.errors) = 4
  /\ ~result.ok

\* the plants a payload names, straight from the request
RawPlants(body) ==
  LET structure == getStructure(CodeOf(body))
      n == parsePositiveInt(body.plotsCount)
      r == parsePositiveInt(body.rowsPerPlot)
      c == parsePositiveInt(body.plantsPerRow)
      d == parsePositiveInt(body.plantsPerPlot)
  IN IF body.plots # <<>>
     THEN IF structure.hasRows
          THEN SumSeq([p \in DOMAIN body.plots |->
                 SumSeq([j \in DOMAIN body.plots[p].rows |->
                           parsePositiveInt(body.plots[p].rows[j].plant_count)])])
          ELSE IF structure.hasPlants
          THEN SumSeq([p \in DOMAIN body.plots |->
                         parsePositiveInt(body.plots[p].plant_count)])
          ELSE 0
     ELSE IF structure.hasRows THEN n * r * c
     ELSE IF structure.hasPlants THEN n * d
     ELSE 0

\* C9: the export-plot-wise warning is given exactly when the plants number
\* more than 10,000, the blocking error exactly when they number more than
\* 100,000, and a warning without an error leaves ok true.
C9_PlantCountThresholds ==
  Validated =>
    /\ Has(result.warnings, "Total labels exceed 10,000. Consider exporting plot-wise.")
         = (RawPlants(call.body) > 10000)
    /\ Has(result.errors, "Total labels exceed the safe limit of 100,000.")
         = (RawPlants(call.body) > 100000)
    /\ (result.errors = <<>> => result.ok)
    /\ Len(result.warnings) <= 1

\* exactly 100,000 plants: warned, not blocked
C9_Witness ==
  /\ Validated
  /\ RawPlants(call.body) = 100000
  /\ result.warnings # <<>>
  /\ result.ok

\* C17: in the structure validatePayload returns with ok = true, from a plots
\* tree or from the compact form, no two rows of a plot have the same rowNo,
\* also when some rows carry no number and get their 1-based position.
C17_RowNumbersUnique ==
  (Validated /\ result.ok) =>
    \A p \in DOMAIN result.values.plots :
      \A r, q \in DOMAIN result.values.plots[p].rows :
        result.values.plots[p].rows[r].rowNo = result.values.plots[p].rows[q].rowNo
          => r = q

\* rows sent as [2, no number]: the second row gets its position, 2, as well
C17_Witness ==
  /\ Validated
  /\ result.ok
  /\ Len(call.body.plots) = 1
  /\ Len(call.body.plots[1].rows) = 2
  /\ call.body.plots[1].rows[1].row_no = 2
  /\ call.body.plots[1].rows[2].row_no = 0
  /\ result.values.plots[1].rows[1].rowNo = 2
  /\ result.values.plots[1].rows[2].rowNo = 2

-----------------------------------------------------------------------------
(* Claims about the label enumerator and the identifiers (SpecEnum) *)

Enumerated ==
  call # NoCall /\ call.fn \in {"iterateLabels", "iteratePlots", "iterateRows"}

\* the (plot, row, plant) position of a record; a field the record does not
\* carry counts as 0
PositionOf(rec) ==
  <<rec.plotNo,
    IF "rowNo" \in DOMAIN rec THEN rec.rowNo ELSE 0,
    IF "plantNo" \in DOMAIN rec THEN rec.plantNo ELSE 0>>

Ascending(recs) ==
  \A i \in 1..Len(recs) - 1 : ~KeyLess(PositionOf(recs[i + 1]), PositionOf(recs[i]))

\* C3: with no trackedPlants override, iterateLabels, iteratePlots and
\* iterateRows yield their records in ascending plot number, then row number,
\* then plant number, whatever the order of the plots and rows in the input.
C3_EnumerationAscending ==
  Enumerated /\ call.trackedPlants = <<>> => Ascending(result)

\* plots sent as [2, 1]: plot 2's plants come out first
C3_Witness ==
  /\ Enumerated
  /\ call.fn = "iterateLabels"
  /\ call.trackedPlants = <<>>
  /\ Len(result) >= 2
  /\ result[1].plotNo = 2
  /\ result[Len(result)].plotNo = 1

\* iterateLabels was called with a trackedPlants override
Overridden ==
  /\ Enumerated
  /\ call.fn = "iterateLabels"
  /\ call.trackedPlants # <<>>

\* a tracked entry with a positive plot and plant number, of the exported plot
\* when a plot is selected
Qualifies(tracked, exportPlot) ==
  /\ tracked.plot_no \in Nat \ {0}
  /\ tracked.plant_no \in Nat \ {0}
  /\ exportPlot # Null => tracked.plot_no = exportPlot

\* C14: with a non-empty trackedPlants list, iterateLabels yields exactly one
\* record for each tracked entry that has a positive plot and plant number and
\* (when exportPlot is set) lies in that plot: as many records at a position as
\* qualifying entries name it, in ascending (plot, row, plant) order, and no
\* record of the full walk of the structure.
C14_TrackedOverride ==
  Overridden =>
    /\ \A position \in {PositionOf(result[i]) : i \in DOMAIN result}
                      \cup {TrackedKey(call.trackedPlants[j]) : j \in DOMAIN call.trackedPlants} :
         Cardinality({i \in DOMAIN result : PositionOf(result[i]) = position})
           = Cardinality({j \in DOMAIN call.trackedPlants :
                            /\ Qualifies(call.trackedPlants[j], call.exportPlot)
                            /\ TrackedKey(call.trackedPlants[j]) = position})
    /\ Ascending(result)
    /\ Len(result) <= Len(call.trackedPlants)

\* tracked plants sent as plot 2, then plot 1: both come out, plot 1 first
C14_Witness ==
  /\ Overridden
  /\ call.exportPlot = Null
  /\ Len(call.trackedPlants) = 2
  /\ call.trackedPlants[1].plot_no = 2
  /\ call.trackedPlants[2].plot_no = 1
  /\ Len(result) = 2
  /\ result[1].plotNo = 1
  /\ result[2].plotNo = 2

\* the decimal digits of n in exactly width places, zero-padded; it reads back
\* as n when n has no more digits than that
RECURSIVE FixedWidth(_, _)
FixedWidth(n, width) ==
  IF width = 0 THEN ""
  ELSE FixedWidth(n \div 10, width - 1) \o StrOf(<<Digits[(n % 10) + 1]>>)

ReadsBack(n, width) == n < 10 ^ width

\* C15: the short id of every plant record of an accepted structure holds the
\* plot number in exactly 2 digits, the row number in exactly 2 digits and the
\* plant number in exactly 3 digits, zero-padded, and the fields read back as
\* the numbers of the record; for S1 the row field is left out.
C15_FixedWidthShortIds ==
  (Enumerated /\ call.fn = "iterateLabels" /\ call.trackedPlants = <<>>) =>
    \A i \in DOMAIN result :
      /\ ReadsBack(result[i].plotNo, 2)
      /\ ReadsBack(result[i].plantNo, 3)
      /\ call.values.structureCode # "S1" => ReadsBack(result[i].rowNo, 2)
      /\ result[i].plantIdShort =
           IF call.values.structureCode = "S1"
           THEN "P" \o FixedWidth(result[i].plotNo, 2)
                  \o "-T" \o FixedWidth(result[i].plantNo, 3)
           ELSE "P" \o FixedWidth(result[i].plotNo, 2)
                  \o "-R" \o FixedWidth(result[i].rowNo, 2)
                  \o "-T" \o FixedWidth(result[i].plantNo, 3)

\* plot 100 of an accepted S3 structure: its field has three digits
C15_Witness ==
  /\ Enumerated
  /\ call.fn = "iterateLabels"
  /\ call.values.structureCode = "S3"
  /\ result # <<>>
  /\ result[1].plotNo = 100
  /\ result[1].rowNo = 1
  /\ result[1].plantIdShort = "P100-R01-T001"

\* C18: over an accepted structure, plots defaulted to their position
\* included, the full walk of iterateLabels never yields two records with the
\* same (plotNo, rowNo, plantNo), and so never two with the same plantIdFull.
C18_PlantCoordinatesUnique ==
  (Enumerated /\ call.fn = "iterateLabels" /\ call.trackedPlants = <<>>) =>
    \A i, j \in DOMAIN result :
      i # j => /\ PositionOf(result[i]) # PositionOf(result[j])
               /\ result[i].plantIdFull # result[j].plantIdFull

\* plots sent as [2, no number]: both are plot 2, and the first plant of each
\* has the same position and the same full id
C18_Witness ==
  /\ Enumerated
  /\ call.fn = "iterateLabels"
  /\ call.trackedPlants = <<>>
  /\ call.exportPlot = Null
  /\ Len(call.values.plots) = 2
  /\ call.values.plots[1].plotNo = 2
  /\ call.values.plots[2].plotNo = 2
  /\ \E i, j \in DOMAIN result :
       /\ i # j
       /\ PositionOf(result[i]) = PositionOf(result[j])
       /\ result[i].plantIdFull = result[j].plantIdFull

\* C19: for structure S1 every record iterateLabels yields, from the full walk
\* and from a trackedPlants override alike, whatever row numbers the tracked
\* entries carry, has rowNo = null.
C19_S1RecordsCarryNoRow ==
  (Enumerated /\ call.fn = "iterateLabels" /\ call.values.structureCode = "S1") =>
    \A i \in DOMAIN result : result[i].rowNo = Null

\* a tracked plant sent with row 1 for an S1 structure: the record keeps row 1
\* though its id has no row field
C19_Witness ==
  /\ Enumerated
  /\ call.fn = "iterateLabels"
  /\ call.values.structureCode = "S1"
  /\ Len(call.trackedPlants) = 1
  /\ call.trackedPlants[1].row_no = 1
  /\ Len(result) = 1
  /\ result[1].rowNo = 1
  /\ result[1].plantIdShort = "P01-T001"

\* the record names a plant of the structure
InStructure(rec, values) ==
  \E p \in DOMAIN values.plots :
    /\ values.plots[p].plotNo = rec.plotNo
    /\ IF getStructure(values.structureCode).hasRows
       THEN \E r \in DOMAIN values.plots[p].rows :
              /\ rec.rowNo # Null
              /\ RowNoOf(values.plots[p].rows[r], r) = rec.rowNo
              /\ rec.plantNo \in 1..values.plots[p].rows[r].plantCount
       ELSE rec.plantNo \in 1..values.plots[p].plantCount

\* C24: every plant record iterateLabels yields, those of a trackedPlants
\* override included, names a plant of the normalized structure: its plotNo is
\* the number of a plot, under a structure with rows its rowNo is the number of
\* a row of that plot, and its plantNo lies in 1..plantCount of that row or
\* plot.
C24_EmittedPlantsExist ==
  (Enumerated /\ call.fn = "iterateLabels") =>
    \A i \in DOMAIN result : InStructure(result[i], call.values)

\* a tracked plant sent without a row for an S3 structure: it is yielded, and
\* its id prints the missing row
C24_Witness ==
  /\ Enumerated
  /\ call.fn = "iterateLabels"
  /\ call.values.structureCode = "S3"
  /\ Len(call.trackedPlants) = 1
  /\ Len(result) = 1
  /\ result[1].rowNo = Null
  /\ result[1].plantIdShort = "P01-Rnull-T001"

AcmeMarigoldS3 ==
  /\ Enumerated
  /\ call.fn = "iterateLabels"
  /\ call.values.structureCode = "S3"
  /\ call.values.siteName = AcmeFarm
  /\ call.values.cropType = Marigold

\* C6, as stated: for S3, site "Acme Farm", crop "Marigold", the record of
\* plot 1, row 1, plant 1 has plantIdShort P01-R01-T001 and plantIdFull
\* ACMEFARM-MARIGOLD-P01-R01-T001.
C6_FullIdWithoutHyphen ==
  AcmeMarigoldS3 =>
    \A i \in DOMAIN result :
      PositionOf(result[i]) = <<1, 1, 1>> =>
        /\ result[i].plantIdShort = "P01-R01-T001"
        /\ result[i].plantIdFull = "ACMEFARM-MARIGOLD-P01-R01-T001"

\* C6, amended: the space of "Acme Farm" becomes a hyphen: plantIdShort is
\* P01-R01-T001 and plantIdFull is ACME-FARM-MARIGOLD-P01-R01-T001.
C6_FullIdWithHyphen ==
  AcmeMarigoldS3 =>
    \A i \in DOMAIN result :
      PositionOf(result[i]) = <<1, 1, 1>> =>
        /\ result[i].plantIdShort = "P01-R01-T001"
        /\ result[i].plantIdFull = "ACME-FARM-MARIGOLD-P01-R01-T001"

C6_Witness ==
  /\ AcmeMarigoldS3
  /\ call.trackedPlants = <<>>
  /\ result # <<>>
  /\ PositionOf(result[1]) = <<1, 1, 1>>
  /\ result[1].plantIdFull = "ACME-FARM-MARIGOLD-P01-R01-T001"

-----------------------------------------------------------------------------
(* Claims about the sampling engine (SpecSample) *)

Sampled == call # NoCall /\ call.fn = "buildSamplingPlan"

\* the call being served repeats the sampling call before it
SameRequest ==
  /\ Sampled
  /\ prior # NoCall
  /\ prior.call.values = call.values
  /\ prior.call.planConfig = call.planConfig

\* C1: two calls of buildSamplingPlan with the same structure and the same plan
\* config return the same outcome (the same trackedPlants in the same order, or
\* the same error) whenever the caller supplied a seed, and whenever both ran
\* with the same resolved seed; a supplied seed is the seed returned.
C1_SameSeedSamePlan ==
  SameRequest =>
    /\ call.planConfig.seed # <<>> => result = prior.result
    /\ (~result.threw /\ ~prior.result.threw /\ result.seed = prior.result.seed)
         => result.trackedPlants = prior.result.trackedPlants
    /\ (~result.threw /\ call.planConfig.seed # <<>>) => result.seed = call.planConfig.seed

\* the same seeded request served twice at different times, drawing a plan that
\* is not the first plants in order
C1_Witness ==
  /\ SameRequest
  /\ call.planConfig.seed # <<>>
  /\ call.at # prior.call.at
  /\ ~result.threw
  /\ Len(result.trackedPlants) >= 2
  /\ \E i \in DOMAIN result.trackedPlants : result.trackedPlants[i].plant_no # i

Coordinate(tracked) == <<tracked.plot_no, tracked.row_no, tracked.plant_no>>

\* C2: within one successful buildSamplingPlan call over an accepted structure,
\* no (plot_no, row_no, plant_no) coordinate appears twice in trackedPlants.
C2_SampledCoordinatesUnique ==
  (Sampled /\ ~result.threw) =>
    \A i, j \in DOMAIN result.trackedPlants :
      i # j => Coordinate(result.trackedPlants[i]) # Coordinate(result.trackedPlants[j])

\* a successful plan over an accepted structure in which two plots carry the
\* same number, and one coordinate was sampled twice
C2_Witness ==
  /\ Sampled
  /\ ~result.threw
  /\ \E p, q \in DOMAIN call.values.plots :
       p # q /\ call.values.plots[p].plotNo = call.values.plots[q].plotNo
  /\ \E i, j \in DOMAIN result.trackedPlants :
       i # j /\ Coordinate(result.trackedPlants[i]) = Coordinate(result.trackedPlants[j])

\* C10: sampleUnique throws whenever count > populationSize, whatever the
\* generator.
C10_OversizedSampleThrows ==
  (call # NoCall /\ call.fn = "sampleUnique" /\ call.count > call.rangeMax) =>
    /\ result.threw
    /\ result.message = "Sample size exceeds population."

\* sampleUnique(5, 6, rng) has thrown
C10_Witness ==
  /\ call # NoCall
  /\ call.fn = "sampleUnique"
  /\ call.rangeMax = 5
  /\ call.count = 6
  /\ result.threw

\* every swap index of the shuffle from index i down lies in 0..i
RECURSIVE SwapsInRange(_, _)
SwapsInRange(i, g) ==
  IF i <= 0 THEN TRUE
  ELSE LET Drawn(draw) ==
             /\ ScaleFloor(draw.value, i + 1) \in 0..i
             /\ SwapsInRange(i - 1, draw.rng)
       IN Drawn(rng(g))

\* C16: for every population size >= 0, every count from 0 up to it and every
\* generator, sampleUnique returns exactly count numbers, no two the same, each
\* in 1..populationSize (the head of a permutation of 1..populationSize), and
\* every swap index j of the shuffle satisfies 0 <= j <= i.
C16_SampleUniqueResult ==
  (call # NoCall /\ call.fn = "sampleUnique" /\ call.count <= call.rangeMax) =>
    /\ ~result.threw
    /\ Len(result.value) = call.count
    /\ \A k \in DOMAIN result.value : result.value[k] \in 1..call.rangeMax
    /\ \A k, l \in DOMAIN result.value : result.value[k] = result.value[l] => k = l
    /\ SwapsInRange(call.rangeMax - 1, call.rng)

\* a whole population drawn with a seeded generator: every number once, and
\* not in counting order
C16_Witness ==
  /\ call # NoCall
  /\ call.fn = "sampleUnique"
  /\ call.rangeMax = MaxPopulation
  /\ call.count = MaxPopulation
  /\ ~result.threw
  /\ {result.value[k] : k \in DOMAIN result.value} = 1..MaxPopulation
  /\ result.value # [k \in 1..MaxPopulation |-> k]
  /\ call.rng.kind = "created"

\* the integers a range string names when blanks count for nothing: every
\* number, and every integer of every range a-b
NamedBy(input) ==
  LET cleaned == SelectSeq(input, LAMBDA c : c \notin Whitespace)
      segments == split(cleaned, ",")
      Of(parts) ==
        IF Len(parts) = 1 THEN {DigitsValue(parts[1])}
        ELSE DigitsValue(parts[1])..DigitsValue(parts[2])
  IN IF cleaned = <<>> THEN {}
     ELSE UNION {Of(split(segments[k], "-")) : k \in DOMAIN segments}

\* C21: for every string of comma-separated positive integers and inclusive
\* a-b ranges, with blanks anywhere, parseRangeList returns exactly the named
\* integers, each once, in ascending order; the empty string gives the empty
\* list.
C21_RangeListNamesItsIntegers ==
  (call # NoCall /\ call.fn = "parseRangeList") =>
    /\ {result[k] : k \in DOMAIN result} = NamedBy(call.input)
    /\ \A k \in 1..(Len(result) - 1) : result[k] < result[k + 1]

\* "1 0" names 10 and parses to nothing
C21_Witness ==
  /\ call # NoCall
  /\ call.fn = "parseRangeList"
  /\ call.input = <<"1", " ", "0">>
  /\ result = <<>>

\* the positive numbers a filter string names: those of its numbers and
\* ranges, none if it holds anything else
FilterNames(filter) ==
  IF \A k \in DOMAIN filter :
       filter[k] \in Whitespace \cup {",", "-"} \cup {Digits[d] : d \in DOMAIN Digits}
  THEN NamedBy(filter) \ {0}
  ELSE {}

\* C30: a supplied sampling filter is always honoured: with a non-empty plots
\* filter only plots it names contribute tracked plants, and with a non-empty
\* rows filter (row-based sampling) only rows it names do; a non-empty filter
\* that names no positive number selects no unit.
C30_SuppliedFilterHonoured ==
  (Sampled /\ ~result.threw) =>
    /\ call.planConfig.plots # <<>> =>
         \A i \in DOMAIN result.trackedPlants :
           result.trackedPlants[i].plot_no \in FilterNames(call.planConfig.plots)
    /\ (call.planConfig.samplingType = "row_based" /\ call.planConfig.rows # <<>>) =>
         \A i \in DOMAIN result.trackedPlants :
           result.trackedPlants[i].row_no \in FilterNames(call.planConfig.rows)

\* the plots filter "x" names no plot, and plants of plots 1 and 2 are tracked
C30_Witness ==
  /\ Sampled
  /\ ~result.threw
  /\ call.planConfig.plots = <<"x">>
  /\ {result.trackedPlants[i].plot_no : i \in DOMAIN result.trackedPlants} = {1, 2}

-----------------------------------------------------------------------------
(* Claims about the export handlers and the sheet layout (SpecHttp) *)

Exported == call # NoCall /\ call.fn \in {"/api/csv", "/api/pdf"}

\* everything drawn on the pages of a response
Drawings(response) ==
  UNION {{response.pages[p][d] : d \in DOMAIN response.pages[p]} :
           p \in DOMAIN response.pages}

\* the plant labels a response carries: CSV lines and PDF fronts and cells
PlantLabelsOf(response) ==
  {response.lines[k] : k \in {k \in DOMAIN response.lines :
                                 response.lines[k].kind = "plant"}}
    \cup {d \in Drawings(response) : d.kind = "plant"}

\* C4: for every request to /api/pdf and /api/csv, whatever its layoutMode and
\* labelType, plant label records are emitted only when the structure has
\* plants and the mode is Research or Full.
C4_PlantLabelsGated ==
  (Exported /\ PlantLabelsOf(result) # {}) =>
    hasPlantTracking(validatePayload(call.body.payload).values.structureCode,
                     validatePayload(call.body.payload).values.mode)

\* /api/csv answered a Standard-mode request with plant lines
C4_Witness ==
  /\ Exported
  /\ call.fn = "/api/csv"
  /\ call.body.payload.mode = MODES.STANDARD
  /\ result.status = 200
  /\ PlantLabelsOf(result) # {}

\* /api/pdf laid out a sheet
SheetServed ==
  /\ call # NoCall
  /\ call.fn = "/api/pdf"
  /\ result.status = 200
  /\ getLayoutOptions(call.body).layoutMode # "single"

\* a 210x297 mm page, 60x30 mm cells, 8 mm margins, 2 mm gaps
DefaultSheet ==
  /\ SheetServed
  /\ getLayoutOptions(call.body).preset = [widthMm |-> 2100, heightMm |-> 2970]
  /\ getLayoutOptions(call.body).labelWidthMm = 600
  /\ getLayoutOptions(call.body).labelHeightMm = 300
  /\ getLayoutOptions(call.body).marginsMm = [top |-> 80, right |-> 80, bottom |-> 80, left |-> 80]
  /\ getLayoutOptions(call.body).gapsMm = [x |-> 20, y |-> 20]

\* count is floor(extent / pitch), or one less where pitch divides extent
FloorOf(count, extent, pitch) ==
  /\ count * pitch <= extent
  /\ extent <= (count + 1) * pitch
  /\ extent < (count + 1) * pitch \/ extent % pitch = 0

\* C5 as stated: the default sheet has 3 columns and 9 rows.
C5_DefaultSheetNineRows == DefaultSheet => result.columns = 3 /\ result.rows = 9

\* C5: columns = floor((usableWidth + gapX) / (cellWidth + gapX)) and rows =
\* floor((usableHeight + gapY) / (cellHeight + gapY)), usable = page size minus
\* margins (one less may come out where the division is exact); a 210x297 mm
\* page with 60x30 mm cells, 8 mm margins and 2 mm gaps yields 3 columns and
\* 8 rows.
C5_SheetGrid ==
  /\ SheetServed =>
       LET layout == getLayoutOptions(call.body)
       IN /\ FloorOf(result.columns,
                     layout.preset.widthMm - layout.marginsMm.left
                       - layout.marginsMm.right + layout.gapsMm.x,
                     layout.labelWidthMm + layout.gapsMm.x)
          /\ FloorOf(result.rows,
                     layout.preset.heightMm - layout.marginsMm.top
                       - layout.marginsMm.bottom + layout.gapsMm.y,
                     layout.labelHeightMm + layout.gapsMm.y)
  /\ DefaultSheet => result.columns = 3 /\ result.rows = 8

\* the default sheet was laid out and its first page is full
C5_Witness ==
  /\ DefaultSheet
  /\ result.columns = 3
  /\ result.rows = 8
  /\ result.pages # <<>>
  /\ result.pages[1] # <<>>

-----------------------------------------------------------------------------
(* Claims about POST /api/sample (SpecSampleApi) *)

SampleServed == call # NoCall /\ call.fn = "/api/sample"

\* the samples a plan configuration asks of each unit, Null if it names none
Requested(planConfig) ==
  CASE planConfig.samplingType = "plot_based" -> parsePositiveInt(planConfig.samplesPerPlot)
    [] planConfig.samplingType = "row_based" -> parsePositiveInt(planConfig.samplesPerRow)
    [] OTHER -> Null

RECURSIVE SumOfPlants(_)
SumOfPlants(rows) ==
  IF rows = <<>> THEN 0 ELSE Head(rows).plantCount + SumOfPlants(Tail(rows))

\* the populations of the selected units of a structure under a plan
\* configuration: plots (S1) or row pools of plots for plot_based, rows for
\* row_based
Populations(values, planConfig) ==
  LET selectedPlots == parseRangeList(planConfig.plots, Null)
      selectedRows == parseRangeList(planConfig.rows, Null)
      chosen == {p \in DOMAIN values.plots :
                   ~Unselected(selectedPlots, values.plots[p].plotNo)}
  IN IF planConfig.samplingType = "plot_based"
     THEN {IF values.structureCode = "S1" THEN values.plots[p].plantCount
           ELSE SumOfPlants(values.plots[p].rows) : p \in chosen}
     ELSE UNION {{values.plots[p].rows[r].plantCount :
                    r \in {r \in DOMAIN values.plots[p].rows :
                             ~Unselected(selectedRows,
                                         RowNoOf(values.plots[p].rows[r], r))}} :
                   p \in chosen}

\* the request reaches buildSamplingPlan, and asks more samples of a selected
\* unit than the unit holds
CapacityCase(validation, planConfig) ==
  /\ validation.ok
  /\ validation.values.mode = MODES.RESEARCH
  /\ Requested(planConfig) # Null
  /\ \E population \in Populations(validation.values, planConfig) :
       Requested(planConfig) > population

OverCapacity ==
  /\ SampleServed
  /\ CapacityCase(validatePayload(call.body.payload), planConfigOf(call.body))

\* C11: when the samples asked for exceed the population of a selected unit,
\* buildSamplingPlan throws (one failure, no trackedPlants returned), and
\* /api/sample answers 400 with that one error and leaves the saved plans as
\* they were when the request arrived.
C11_CapacityAllOrNothing ==
  OverCapacity =>
    LET Failed(planResult) ==
          /\ planResult.threw
          /\ "trackedPlants" \notin DOMAIN planResult
          /\ result.status = 400
          /\ result.errors = <<planResult.message>>
          /\ "trackedPlants" \notin DOMAIN result
          /\ plans = call.stored
    IN Failed(buildSamplingPlan(validatePayload(call.body.payload).values,
                                planConfigOf(call.body), call.at))

\* a plot_based request on S1 whose first plot holds the samples asked for and
\* whose last plot does not, made when a plan is already saved
C11_Witness ==
  /\ OverCapacity
  /\ plans # <<>>
  /\ result.status = 400
  /\ planConfigOf(call.body).samplingType = "plot_based"
  /\ planConfigOf(call.body).plots = <<>>
  /\ validatePayload(call.body.payload).values.structureCode = "S1"
  /\ validatePayload(call.body.payload).values.plots[1].plantCount
       >= Requested(planConfigOf(call.body))

-----------------------------------------------------------------------------
(* Claims about the documents of /api/pdf (SpecHttp) *)

PdfServed == call # NoCall /\ call.fn = "/api/pdf"

\* single mode with a safe margin below 0 or of half a page side or more
SafeMarginViolated(layout) ==
  /\ layout.layoutMode = "single"
  /\ \/ layout.safeMarginMm < 0
     \/ 2 * layout.safeMarginMm >= layout.preset.widthMm
     \/ 2 * layout.safeMarginMm >= layout.preset.heightMm

\* a sheet of positive cells, margins and gaps not below 0, on which not one
\* column or not one row fits
GridViolated(layout) ==
  /\ layout.layoutMode # "single"
  /\ layout.labelWidthMm > 0
  /\ layout.labelHeightMm > 0
  /\ \A side \in DOMAIN layout.marginsMm : layout.marginsMm[side] >= 0
  /\ \A axis \in DOMAIN layout.gapsMm : layout.gapsMm[axis] >= 0
  /\ \/ layout.preset.widthMm - layout.marginsMm.left - layout.marginsMm.right
          < layout.labelWidthMm
     \/ layout.preset.heightMm - layout.marginsMm.top - layout.marginsMm.bottom
          < layout.labelHeightMm

\* C12: a request to /api/pdf whose sheet grid has no column or no row, or
\* whose single-mode safe margin is negative or at least half the page width
\* or height, is answered with an error before the document is created: no
\* page, nothing piped; and a sheet that is laid out has at least one column
\* and one row.
C12_GeometryPreFlight ==
  /\ (PdfServed /\ (\/ SafeMarginViolated(getLayoutOptions(call.body))
                    \/ GridViolated(getLayoutOptions(call.body)))) =>
       /\ result.status = 400
       /\ result.errors # <<>>
       /\ ~result.piped
       /\ result.pages = <<>>
  /\ (PdfServed /\ getLayoutOptions(call.body).layoutMode # "single"
        /\ result.pages # <<>>) =>
       result.columns >= 1 /\ result.rows >= 1

\* a sheet request that passed every earlier check was refused for its grid
C12_Witness ==
  /\ PdfServed
  /\ GridViolated(getLayoutOptions(call.body))
  /\ result.errors = <<"Label size or margins are too large for the selected paper size.">>
  /\ ~result.piped

\* the records the single-mode loop enumerates for a request, each with its
\* label type: plots, then rows, then plants under "all"
SingleRecords(body) ==
  LET values == validatePayload(body.payload).values
      exportPlot == exportPlotOf(body)
      Typed(type, records) == [k \in 1..Len(records) |-> [type |-> type, record |-> records[k]]]
      plots == Typed("plot", iteratePlots(values, exportPlot))
      rows == IF getStructure(values.structureCode).hasRows
              THEN Typed("row", iterateRows(values, exportPlot)) ELSE <<>>
      plants == IF hasPlantTracking(values.structureCode, values.mode)
                THEN Typed("plant", iterateLabels(values, exportPlot, body.trackedPlants))
                ELSE <<>>
  IN CASE labelTypeOf(body) = "all" -> plots \o rows \o plants
       [] labelTypeOf(body) = "plot" -> plots
       [] labelTypeOf(body) = "row" -> rows
       [] OTHER -> plants

\* a single-mode document was written to its end
SingleServed ==
  /\ PdfServed
  /\ getLayoutOptions(call.body).layoutMode = "single"
  /\ result.status = 200
  /\ result.ended

FrontOf(entry) ==
  [side |-> "front", kind |-> entry.type, record |-> entry.record, fullId |-> "",
   qrPayload |-> ""]

BackOf(entry, body) ==
  [side |-> "back", kind |-> entry.type, record |-> entry.record,
   fullId |-> fullIdOf(entry.type, entry.record),
   qrPayload |-> getQrPayload(fullIdOf(entry.type, entry.record), body)]

\* a QR code of positive size fits the back page
QrFits(layout) ==
  /\ layout.preset.widthMm - 2 * layout.safeMarginMm > 80
  /\ 6 * (layout.preset.heightMm - 2 * layout.safeMarginMm) > 800

\* the document of N records has 2N pages, page 2k-1 the front of record k and
\* page 2k the k-th of backs
PageSequence(records, pages, backs) ==
  Len(records) >= 1 =>
    /\ Len(pages) = 2 * Len(records)
    /\ \A k \in 1..Len(records) :
         /\ pages[2 * k - 1] = <<FrontOf(records[k])>>
         /\ pages[2 * k] = backs[k]

Placed(records, pages, columns, perPage) ==
  /\ \A i \in 0..(Len(records) - 1) :
       LET Cell(page, indexInPage) ==
             /\ page <= Len(pages)
             /\ indexInPage + 1 <= Len(pages[page])
             /\ pages[page][indexInPage + 1].record = records[i + 1]
             /\ pages[page][indexInPage + 1].row = indexInPage \div columns
             /\ pages[page][indexInPage + 1].col = indexInPage % columns
       IN Cell(i \div perPage + 1, i % perPage)
  /\ Len(pages) = IF records = <<>> THEN 1 ELSE (Len(records) - 1) \div perPage + 1
  /\ \A p \in DOMAIN pages :
       /\ Len(pages[p]) <= perPage
       /\ \A d, e \in DOMAIN pages[p] :
            (pages[p][d].row = pages[p][e].row /\ pages[p][d].col = pages[p][e].col)
              => d = e

\* C20: in sheet mode the label of zero-based index i is drawn on page
\* floor(i / (columns*rows)), in grid row floor((i mod (columns*rows)) / columns)
\* and grid column (i mod (columns*rows)) mod columns: a page is started exactly
\* at the positive multiples of columns*rows, no page holds more than
\* columns*rows labels and no two labels of a page share a cell.
C20_SheetPlacement ==
  (SheetServed /\ result.pages # <<>>) =>
    Placed(iterateLabels(validatePayload(call.body.payload).values,
                         exportPlotOf(call.body), call.body.trackedPlants),
           result.pages, result.columns, result.columns * result.rows)

\* eight labels on a grid of three columns and two rows: a full first page and
\* a second page that starts over at row 0, column 0
C20_Witness ==
  /\ SheetServed
  /\ result.columns = 3
  /\ result.rows = 2
  /\ Len(result.pages) = 2
  /\ Len(result.pages[1]) = 6
  /\ result.pages[1][6].row = 1
  /\ result.pages[1][6].col = 2
  /\ Len(result.pages[2]) = 2
  /\ result.pages[2][1].row = 0
  /\ result.pages[2][1].col = 0

-----------------------------------------------------------------------------
(* Claims about what the export handlers emit (SpecHttp) *)

\* the request being served is in Research mode
ResearchExport ==
  /\ Exported
  /\ validatePayload(call.body.payload).ok
  /\ validatePayload(call.body.payload).values.mode = MODES.RESEARCH

\* C22: for every /api/pdf and /api/csv request in Research mode, whatever its
\* labelType and layout mode, every plant label emitted is at the position of
\* an entry of the trackedPlants supplied; the walk of the structure gives no
\* plant label.
C22_ResearchPrintsSampledOnly ==
  ResearchExport =>
    \A label \in PlantLabelsOf(result) :
      \E k \in DOMAIN call.body.trackedPlants :
        PositionOf(label.record) = TrackedKey(call.body.trackedPlants[k])

\* a single-mode "all" document in Research mode without tracked plants carries
\* plant labels
C22_Witness ==
  /\ ResearchExport
  /\ call.fn = "/api/pdf"
  /\ call.body.labelType = "all"
  /\ call.body.trackedPlants = <<>>
  /\ result.status = 200
  /\ PlantLabelsOf(result) # {}

\* the request names, as exportPlot, the number of a plot of its structure
NamesAPlot ==
  /\ Exported
  /\ validatePayload(call.body.payload).ok
  /\ exportPlotOf(call.body) # Null
  /\ \E p \in DOMAIN validatePayload(call.body.payload).values.plots :
       validatePayload(call.body.payload).values.plots[p].plotNo = exportPlotOf(call.body)

\* the records a response carries, as CSV lines or as drawings
RecordsOf(response) ==
  {response.lines[k].record : k \in DOMAIN response.lines}
    \cup {d.record : d \in Drawings(response)}

\* C23: for any accepted structure, also one whose plot numbers do not start
\* at 1 or have gaps, an exportPlot equal to the plotNo of some plot is not
\* refused as out of range by /api/csv and /api/pdf, and the records emitted
\* are those of that plot.
C23_ExistingPlotAccepted ==
  NamesAPlot =>
    /\ result.errors # <<"Selected plot is outside the available range.">>
    /\ \A record \in RecordsOf(result) : record.plotNo = exportPlotOf(call.body)

\* plots numbered 2 and 3: the export of plot 3 is refused
C23_Witness ==
  /\ NamesAPlot
  /\ exportPlotOf(call.body) = MaxPlots + 1
  /\ result.status = 400
  /\ result.errors = <<"Selected plot is outside the available range.">>

\* C25: every 400 answer of /api/pdf, in single and in sheet mode, is sent
\* before the document is created and piped to the response: a response that
\* was piped carries no error body.
C25_NoErrorAfterPipe ==
  (PdfServed /\ result.status = 400) =>
    /\ ~result.piped
    /\ result.pages = <<>>

\* single mode, Research, no tracked plants: the refusal comes after doc.pipe
C25_Witness ==
  /\ PdfServed
  /\ getLayoutOptions(call.body).layoutMode = "single"
  /\ result.status = 400
  /\ result.errors = <<"Generate a sampling plan before exporting plant labels.">>
  /\ result.piped
  /\ result.pages = NewDocument

\* the cell of a sheet drawing lies inside the margin box of the layout
InsideMargins(d, layout) ==
  /\ d.x >= mmToPt(layout.marginsMm.left)
  /\ d.x + mmToPt(layout.labelWidthMm)
       <= mmToPt(layout.preset.widthMm) - mmToPt(layout.marginsMm.right)
  /\ d.y >= mmToPt(layout.marginsMm.top)
  /\ d.y + mmToPt(layout.labelHeightMm)
       <= mmToPt(layout.preset.heightMm) - mmToPt(layout.marginsMm.bottom)

-----------------------------------------------------------------------------
(* Claims about the page (SpecPage) *)

\* C26: the sampling state is never stale: a non-empty
\* samplingState.trackedPlants was generated from the plotsData, the structure
\* and the mode the page holds now.
C26_SamplingStateNotStale ==
  app.samplingState.trackedPlants # <<>> =>
    \E held \in app.installed : held.source = SourceOf(app)

\* Continue, Research mode, Generate and its answer, then Apply Defaults: the
\* plan was installed for the page it was requested for, no answer is on its
\* way, and the plots are no longer those the plan was generated from
C26_Witness ==
  /\ app.events = 5
  /\ app.inflight = {}
  /\ app.samplingState.trackedPlants # <<>>
  /\ \E held \in app.installed :
       /\ held.at = held.source
       /\ held.source.plotsData # app.plotsData
       /\ held.source.structureCode = app.structureCode
       /\ held.source.mode = app.mode

\* C27: late sampling responses are not installed: the plan samplingState
\* holds was installed while the page held the plotsData, the structure and
\* the mode it was requested for, and once no answer is on its way it is the
\* plan of the latest request the server answered with a plan.
C27_LateResponsesNotInstalled ==
  app.samplingState.trackedPlants # <<>> =>
    \A held \in app.installed :
      /\ held.at = held.source
      /\ app.inflight = {} => held.seq = app.planned

\* a plan requested for Research mode of S3 is installed after the structure
\* has been changed
C27_Witness ==
  /\ app.samplingState.trackedPlants # <<>>
  /\ \E held \in app.installed :
       held.at.structureCode # held.source.structureCode

\* C28: getValues never fails: whenever it runs, every plot of plotsData has a
\* rows array if the selected structure is S2 or S3.
C28_GetValuesNeverFails == app.failed # "getValues"

\* the structure has been switched from S1 to S3 and Continue has not rebuilt
\* the plots
C28_Witness ==
  /\ app.failed = "getValues"
  /\ app.stageB
  /\ app.needsRebuild
  /\ app.structureCode = <<"S", "3">>
  /\ app.rendered.code = "S1"
  /\ \A p \in DOMAIN app.plotsData : app.plotsData[p].rows = {}

====
